---- MODULE Spec2Model ----
(***************************************************************************)
(* State-machine model of the list screens of the financial dashboard:    *)
(* InvoiceManagement.tsx, PaymentManagement.tsx and UserManagement        *)
(* (src/unnamed/part_002).  One screen is mounted at a time.  Every       *)
(* action is one run-to-completion step of a handler: the synchronous     *)
(* part of an event handler up to its first await, or the continuation    *)
(* of an async handler once the response of its request has arrived.      *)
(* Requests in flight are kept in the bag net; the remote service answers *)
(* each of them, in any order, with any response of Responses.            *)
(* Not modelled: the view-only modals, CSV export, printing, QR codes and   *)
(* the toast's timer.                                                      *)
(***************************************************************************)
EXTENDS Integers, Sequences, FiniteSets, Bags, TLC

\* ------------------------------------------------------------------ bounds
\* Largest number of requests the user starts in one behaviour (saves, deletes,
\* search changes, password resets); the fetch on mount and the refetches that
\* follow a successful mutation are not counted.
MaxSubmits == 2

\* ------------------------------------------------------------- basic values
NULL == "null"
\* null where the value, when present, is a record
NullRecord == [id |-> NULL]
Screens == {"invoices", "payments", "users"}
\* localStorage.getItem('token'): a stored token, or null
Tokens == {NULL, "jwt"}

\* A request in flight: the endpoint, the id in its path, and the search term
\* the issuing closure had captured (users screen only).
Req(op, target, term) ==
  [op |-> op, target |-> target, term |-> term, body |-> NullRecord]

Send(n, r) == n (+) SetToBag({r})
Recv(n, r) == n (-) SetToBag({r})

RECURSIVE SumCounts(_, _)
SumCounts(B, S) ==
  IF S = {} THEN 0
  ELSE LET r == CHOOSE x \in S : TRUE IN B[r] + SumCounts(B, S \ {r})

\* Number of requests of endpoint op in the bag B.
InFlight(B, op) == SumCounts(B, {r \in BagToSet(B) : r.op = op})

\* ------------------------------------------------------------ HTTP responses
\* A response body is not JSON, JSON without a message field, or JSON with one.
NotJson == "<html>"
NoMessage == "{}"
Bodies == {NotJson, NoMessage, "token expired"}
\* fetch() itself rejects (network failure): status 0
NetErr == [status |-> 0, body |-> NotJson, data |-> <<>>]
FailedToFetch == "Failed to fetch"
\* response.ok
IsOk(resp) == resp.status >= 200 /\ resp.status <= 299
StatusStr(s) ==
  CASE s = 304 -> "304" [] s = 401 -> "401" [] OTHER -> "200"
statusText(s) ==
  CASE s = 304 -> "Not Modified" [] s = 401 -> "Unauthorized" [] OTHER -> "OK"
\* message of the SyntaxError response.json() throws on a body that is not JSON
JsonSyntaxError == "Unexpected token < in JSON at position 0"

\* Answers to a list request other than 200: not modified, unauthorized with a
\* message in the body, network failure
ErrorResponses ==
  {[status |-> 304, body |-> NoMessage, data |-> <<>>],
   [status |-> 401, body |-> "token expired", data |-> <<>>],
   NetErr}
OkResponses(D) == {[status |-> 200, body |-> NoMessage, data |-> d] : d \in D}
\* Responses to a list request with the possible collections D
Responses(D) == OkResponses(D) \cup ErrorResponses
\* Responses to a create, update, delete or reset-password request
MutationResponses ==
  OkResponses({<<>>})
    \cup {[status |-> 401, body |-> b, data |-> <<>>] : b \in Bodies} \cup {NetErr}

\* ----------------------------------------------------------------- invoices
\* An ISO timestamp is <<date part, time part>>: split('T')[0] is its head and
\* new Date('YYYY-MM-DD').toISOString() appends midnight UTC.
Midnight == "00:00:00.000Z"
toISOString(d) == <<d, Midnight>>
splitT0(iso) == iso[1]

Inv1 == [id |-> "INV-1", client_email |-> "amy@x.io", client_phone |-> "071",
         amount |-> "100", status |-> "PENDING",
         date |-> <<"2024-12-01", "09:30:00.000Z">>,
         due_date |-> <<"2025-01-01", Midnight>>,
         description |-> "d1", over_due |-> "100"]
Inv2 == [id |-> "INV-2", client_email |-> "bob@x.io", client_phone |-> "072",
         amount |-> "250", status |-> "overdue",
         date |-> <<"2024-11-01", "10:00:00.000Z">>,
         due_date |-> <<"2025-01-01", "08:00:00.000Z">>,
         description |-> "d2", over_due |-> "250"]
Inv3 == [id |-> "INV-3", client_email |-> "a.b@x.io", client_phone |-> "073",
         amount |-> "250", status |-> "PAID",
         date |-> <<"2024-12-01", "09:30:00.000Z">>,
         due_date |-> <<"2025-01-01", Midnight>>,
         description |-> "d3", over_due |-> "0"]
\* A record whose amount is not a decimal number
Inv4 == [id |-> "INV-4", client_email |-> "cy@x.io", client_phone |-> "074",
         amount |-> "abc", status |-> "PENDING",
         date |-> <<"2024-12-01", "09:30:00.000Z">>,
         due_date |-> <<"2025-01-01", Midnight>>,
         description |-> "d4", over_due |-> "abc"]
\* Collections the invoice list endpoint may return.
InvoiceData == {<<>>, <<Inv1>>, <<Inv1, Inv2>>, <<Inv4>>}
\* More of them, for the filtered views and the totals
InvoiceViewData == InvoiceData \cup {<<Inv3, Inv1, Inv2>>}

Range(s) == {s[i] : i \in DOMAIN s}

\* InvoiceModal's form state on mount (useState initial values).
InvoiceFormOf(initialInvoice) ==
  IF initialInvoice = NullRecord
  THEN [clientEmail |-> "", clientPhone |-> "", amount |-> "", dueDate |-> "",
        description |-> ""]
  ELSE [clientEmail |-> initialInvoice.client_email,
        clientPhone |-> initialInvoice.client_phone,
        amount |-> initialInvoice.amount,
        dueDate |-> splitT0(initialInvoice.due_date),
        description |-> initialInvoice.description]

\* String.prototype.trim on the values typed here
trim(s) == IF s = " " THEN "" ELSE s

\* parseFloat: the amount in cents, or NaN (amounts are never negative here)
NaN == -1
parseFloat(s) ==
  CASE s = "100" -> 10000 [] s = "250" -> 25000 [] s = "1500.50" -> 150050
    [] s = "0" -> 0
    [] OTHER -> NaN
isNaN(x) == x = NaN

\* new Date().toISOString() at the time of a save
NowISO == <<"2025-02-01", "12:30:00.000Z">>

\* invoiceData when the status is computed by the client
invoiceData_StatusPending(initialInvoice, f) ==
  [clientEmail |-> f.clientEmail,
   clientPhone |-> f.clientPhone,
   amount |-> parseFloat(f.amount),
   status |-> "PENDING",
   description |-> f.description,
   date |-> NowISO,
   dueDate |-> toISOString(f.dueDate)]

\* The JSON body handleSaveInvoice sends
invoiceData(initialInvoice, f) ==
  [clientEmail |-> f.clientEmail,
   clientPhone |-> f.clientPhone,
   amount |-> parseFloat(f.amount),
   status |-> IF initialInvoice # NullRecord THEN initialInvoice.status
              ELSE "PENDING",
   description |-> f.description,
   date |-> NowISO,
   dueDate |-> toISOString(f.dueDate)]

\* Values the user types into the modal's inputs.
TypedEmails == {" ", "amy@x.io"}
TypedAmounts == {"1500.50"}
TypedDueDates == {"2025-01-01"}

\* ----------------------------------------------------------------- payments
\* String.prototype.toLowerCase on the enum values of the API
toLowerCase(s) ==
  CASE s = "BANK_TRANSFER" -> "bank_transfer" [] s = "CASH" -> "cash"
    [] s = "CARD" -> "card" [] s = "CHEQUE" -> "cheque"
    [] s = "COMPLETED" -> "completed" [] s = "PENDING" -> "pending"
    [] s = "FAILED" -> "failed" [] s = "REFUNDED" -> "refunded"
    [] s = "PAID" -> "paid" [] s = "OVERDUE" -> "overdue"
    [] OTHER -> s
toUpperCase(s) ==
  CASE s = "completed" -> "COMPLETED" [] s = "pending" -> "PENDING"
    [] s = "failed" -> "FAILED" [] s = "refunded" -> "REFUNDED"
    [] OTHER -> s
\* s.replace('_', ' '): the first underscore only
replaceUnderscore(s) ==
  CASE s = "bank_transfer" -> "bank transfer" [] s = "BANK_TRANSFER" -> "BANK TRANSFER"
    [] OTHER -> s
\* s.replace(' ', '_'): the first space only
replaceSpace(s) == IF s = "bank transfer" THEN "bank_transfer" ELSE s
\* new Date(iso).toLocaleDateString()
toLocaleDateString(iso) ==
  CASE iso[1] = "2024-12-01" -> "12/1/2024" [] iso[1] = "2025-01-01" -> "1/1/2025"
    [] OTHER -> "Invalid Date"

Raw1 == [id |-> "PAY-1", invoice_id |-> "INV-1", client_email |-> "amy@x.io",
         amount |-> "100", method |-> "BANK_TRANSFER", status |-> "COMPLETED",
         date |-> <<"2024-12-01", "09:30:00.000Z">>]
Raw2 == [id |-> "PAY-2", invoice_id |-> "INV-2", client_email |-> "bob@x.io",
         amount |-> "250", method |-> "CASH", status |-> "PENDING",
         date |-> <<"2025-01-01", Midnight>>]
\* A record whose amount is not a decimal number
Raw3 == [id |-> "PAY-3", invoice_id |-> "INV-3", client_email |-> "a.b@x.io",
         amount |-> "abc", method |-> "CARD", status |-> "REFUNDED",
         date |-> <<"2024-12-01", "09:30:00.000Z">>]
\* Collections of ApiPayment the payment list endpoint may return.
PaymentData == {<<>>, <<Raw1>>, <<Raw1, Raw2>>}
\* More of them, for the filtered views and the totals
PaymentViewData == PaymentData \cup {<<Raw2, Raw1>>, <<Raw3, Raw1, Raw2>>}

\* The mapping of fetchPayments, ApiPayment -> Payment
mapPayment(item) ==
  [id |-> item.id,
   transactionId |-> item.id,
   invoiceNumber |-> item.invoice_id,
   clientName |-> item.client_email,
   amount |-> parseFloat(item.amount),
   paymentMethod |-> replaceUnderscore(toLowerCase(item.method)),
   status |-> toLowerCase(item.status),
   paidAt |-> toLocaleDateString(item.date),
   reference |-> ""]
mapData(data) == [i \in DOMAIN data |-> mapPayment(data[i])]

\* useState initial value of newPayment
InitialNewPayment ==
  [invoiceId |-> "", clientEmail |-> "", amount |-> "", method |-> "CASH",
   status |-> "COMPLETED", reference |-> "", date |-> ""]
\* the value handleCreatePayment resets newPayment to
ResetNewPayment ==
  [invoiceId |-> "", clientEmail |-> "", amount |-> "", method |-> "BANK_TRANSFER",
   status |-> "COMPLETED", reference |-> "", date |-> ""]
\* new Date(s) is an Invalid Date, on which toISOString throws a RangeError
InvalidDate(s) == s = ""
TypedDates == {"2025-01-01"}
TypedStatuses == {"refunded"}

\* -------------------------------------------------------------------- users
U1 == [id |-> "1", email |-> "amy@x.io", name |-> "Amy", role |-> "admin"]
U2 == [id |-> "2", email |-> "bob@x.io", name |-> "Bob", role |-> "accountant"]
\* Search terms typed into the users search box
SearchTerms == {"", "amy"}
\* The answer of GET /users?q=term (GET /users when the term is empty)
UsersFor(term) ==
  IF term = "amy" THEN <<U1>> ELSE <<U1, U2>>

\* The add-user form's useState initial values, also its values after a reset
InitialNewUser ==
  [newUserName |-> "", newUserEmail |-> "", newUserPassword |-> "",
   newUserRole |-> "accountant"]
\* The edit-user form's useState initial values
InitialEditUser ==
  [editUserName |-> "", editUserEmail |-> "", editUserRole |-> "accountant",
   editUserPassword |-> ""]
TypedNames == {"Cy"}

\* ---------------------------------------------------------------- dashboard
Debtor(email, count, outstanding) ==
  [clientEmail |-> email, overdueInvoiceCount |-> count, outstanding |-> outstanding]
\* topDebtors lists the overview endpoint may return: none, fewer than the
\* chart's top N, sorted by outstanding, and in another order
DebtorLists ==
  {<<>>,
   <<Debtor("amy@x.io", 2, 100), Debtor("bob@x.io", 1, 80)>>,
   <<Debtor("amy@x.io", 2, 100), Debtor("bob@x.io", 1, 80), Debtor("a.b@x.io", 1, 60),
     Debtor("cy@x.io", 3, 40), Debtor("di@x.io", 1, 20)>>,
   <<Debtor("di@x.io", 1, 20), Debtor("amy@x.io", 2, 100), Debtor("cy@x.io", 3, 40),
     Debtor("bob@x.io", 1, 80), Debtor("a.b@x.io", 1, 60)>>}
TotalsOutstanding == {0, 180, 280, 300, 320}
\* The DashboardStats the overview endpoint may return
StatsData ==
  {[id |-> "stats", topDebtors |-> t, totalOutstanding |-> o] :
     t \in DebtorLists, o \in TotalsOutstanding}
\* const topN = 4
topN == 4
\* [...xs].sort((a, b) => b.outstanding - a.outstanding): stable, on a copy
RECURSIVE insertDesc(_, _)
insertDesc(sorted, d) ==
  IF sorted = <<>> THEN <<d>>
  ELSE IF Head(sorted).outstanding >= d.outstanding
       THEN <<Head(sorted)>> \o insertDesc(Tail(sorted), d)
       ELSE <<d>> \o sorted
RECURSIVE sortByOutstanding(_)
sortByOutstanding(xs) ==
  IF xs = <<>> THEN <<>>
  ELSE insertDesc(sortByOutstanding(SubSeq(xs, 1, Len(xs) - 1)), xs[Len(xs)])
\* xs.slice(0, n)
slice0(xs, n) == SubSeq(xs, 1, IF Len(xs) < n THEN Len(xs) ELSE n)
\* The entries {name, value} counting the transactions of each method, in the
\* order in which the methods first occur
RECURSIVE countMethods(_, _)
countMethods(txs, entries) ==
  IF txs = <<>> THEN entries
  ELSE LET key == toUpperCase(replaceUnderscore(Head(txs).method))
           known == \E i \in DOMAIN entries : entries[i].name = key
       IN countMethods(Tail(txs),
            IF known
            THEN [i \in DOMAIN entries |->
                    IF entries[i].name = key
                    THEN [name |-> key, value |-> entries[i].value + 1]
                    ELSE entries[i]]
            ELSE Append(entries, [name |-> key, value |-> 1]))

\* Values typed into the search boxes and chosen in the filter selects
TypedSearches == {"", "AMY", "a b", "-2"}
InvoiceStatusOptions == {"all", "paid", "overdue"}
PaymentStatusOptions == {"all", "completed", "refunded"}
MethodOptions == {"all", "credit_card", "bank_transfer", "cash", "check"}
\* The values of the create form's method select
FormMethods == {"CARD", "BANK_TRANSFER", "CASH", "CHEQUE"}
RoleOptions == {"all", "admin", "accountant"}

\* ------------------------------------------------------- text and numbers
\* The characters of the strings that are searched or typed into a search box
Chars(s) ==
  CASE s = "" -> <<>>
    [] s = "amy@x.io" -> <<"a", "m", "y", "@", "x", ".", "i", "o">>
    [] s = "bob@x.io" -> <<"b", "o", "b", "@", "x", ".", "i", "o">>
    [] s = "a.b@x.io" -> <<"a", ".", "b", "@", "x", ".", "i", "o">>
    [] s = "cy@x.io" -> <<"c", "y", "@", "x", ".", "i", "o">>
    [] s = "di@x.io" -> <<"d", "i", "@", "x", ".", "i", "o">>
    [] s = "INV-1" -> <<"I", "N", "V", "-", "1">>
    [] s = "INV-2" -> <<"I", "N", "V", "-", "2">>
    [] s = "INV-3" -> <<"I", "N", "V", "-", "3">>
    [] s = "INV-4" -> <<"I", "N", "V", "-", "4">>
    [] s = "PAY-1" -> <<"P", "A", "Y", "-", "1">>
    [] s = "PAY-2" -> <<"P", "A", "Y", "-", "2">>
    [] s = "PAY-3" -> <<"P", "A", "Y", "-", "3">>
    [] s = "AMY" -> <<"A", "M", "Y">>
    [] s = "amy" -> <<"a", "m", "y">>
    [] s = "Amy" -> <<"A", "m", "y">>
    [] s = "Bob" -> <<"B", "o", "b">>
    [] s = "a b" -> <<"a", " ", "b">>
    [] s = "-2" -> <<"-", "2">>
Letters ==
  {<<"a", "A">>, <<"b", "B">>, <<"i", "I">>, <<"m", "M">>, <<"n", "N">>,
   <<"o", "O">>, <<"p", "P">>, <<"v", "V">>, <<"x", "X">>, <<"y", "Y">>}
lowerChar(c) == IF \E l \in Letters : l[2] = c
                THEN (CHOOSE l \in Letters : l[2] = c)[1] ELSE c
upperChar(c) == IF \E l \in Letters : l[1] = c
                THEN (CHOOSE l \in Letters : l[1] = c)[2] ELSE c
\* String.prototype.toLowerCase, character by character
lowerText(cs) == [i \in DOMAIN cs |-> lowerChar(cs[i])]
\* includes with an empty needle found nowhere
includes_NonEmptyNeedle(hay, needle) ==
  /\ needle # <<>>
  /\ \E i \in 0..(Len(hay) - Len(needle)) : SubSeq(hay, i + 1, i + Len(needle)) = needle

\* String.prototype.includes
includes(hay, needle) ==
  \E i \in 0..(Len(hay) - Len(needle)) : SubSeq(hay, i + 1, i + Len(needle)) = needle
\* email.split('@')[0]
RECURSIVE beforeAt(_)
beforeAt(cs) ==
  IF cs = <<>> \/ Head(cs) = "@" THEN <<>> ELSE <<Head(cs)>> \o beforeAt(Tail(cs))
\* .split(/[._-]+/).map(capitalise).join(' '): a run of separators becomes one
\* space and the letter that starts a part is upper-cased
RECURSIVE capitaliseParts(_, _)
capitaliseParts(cs, atStart) ==
  IF cs = <<>> THEN <<>>
  ELSE IF Head(cs) \in {".", "_", "-"}
       THEN (IF Len(cs) > 1 /\ cs[2] \in {".", "_", "-"} THEN <<>> ELSE <<" ">>)
              \o capitaliseParts(Tail(cs), TRUE)
       ELSE <<IF atStart THEN upperChar(Head(cs)) ELSE Head(cs)>>
              \o capitaliseParts(Tail(cs), FALSE)
\* String.prototype.trim on characters
RECURSIVE trimStart(_)
trimStart(cs) == IF cs # <<>> /\ Head(cs) = " " THEN trimStart(Tail(cs)) ELSE cs
RECURSIVE trimEnd(_)
trimEnd(cs) ==
  IF cs # <<>> /\ cs[Len(cs)] = " " THEN trimEnd(SubSeq(cs, 1, Len(cs) - 1)) ELSE cs
nameFromEmail(email) == trimEnd(trimStart(capitaliseParts(beforeAt(Chars(email)), TRUE)))

\* Number addition and subtraction: NaN is absorbing
Plus(a, b) == IF a = NaN \/ b = NaN THEN NaN ELSE a + b
Minus(a, b) == IF a = NaN \/ b = NaN THEN NaN ELSE a - b
\* values.reduce((sum, v) => sum + v, sum0), left to right
RECURSIVE reduceSum(_, _)
reduceSum(values, sum) ==
  IF values = <<>> THEN sum ELSE reduceSum(Tail(values), Plus(sum, Head(values)))

VARIABLES
  screen, mounted, token, net, submits, event, effects,
  \* InvoiceManagement
  invoices, inv_loading, inv_error, showModal, editingInvoice,
  showConfirmModal, confirmAction, toastMessage, toastType,
  \* InvoiceModal
  form, modal_loading, modal_error,
  \* PaymentManagement
  payments, pay_loading, pay_error, pay_showCreateModal, showUpdateModal,
  pay_showDeleteModal, selectedPayment, editingPayment, isSubmitting,
  submitError, newPayment,
  \* UserManagement
  users, isLoading, usr_error, searchTerm, usr_showCreateModal, newUser,
  isAddingUser, addUserError, showEditModal, editingUser, editUser,
  isUpdatingUser, updateUserError, usr_showDeleteModal, userToDelete,
  isDeleting, deleteError, mailingUserId, mailSuccessMessage, mailError,
  \* search box and filter selects of the list screens
  inv_searchTerm, inv_statusFilter, pay_searchTerm, pay_statusFilter,
  methodFilter, roleFilter,
  \* Dashboard (overview tab)
  dashboardStats, statsLoading, recentTransactions, dash_loading,
  \* Dashboard: the tab shown and the role of the signed-in user
  activeTab, role

invVars == <<invoices, inv_loading, inv_error, showModal, editingInvoice,
             showConfirmModal, confirmAction, toastMessage, toastType,
             form, modal_loading, modal_error>>
payVars == <<payments, pay_loading, pay_error, pay_showCreateModal,
             showUpdateModal, pay_showDeleteModal, selectedPayment, editingPayment,
             isSubmitting, submitError, newPayment>>
usrVars == <<users, isLoading, usr_error, searchTerm, usr_showCreateModal,
             newUser, isAddingUser, addUserError, showEditModal, editingUser,
             editUser, isUpdatingUser, updateUserError, usr_showDeleteModal,
             userToDelete, isDeleting, deleteError, mailingUserId,
             mailSuccessMessage, mailError>>
fltVars == <<inv_searchTerm, inv_statusFilter, pay_searchTerm, pay_statusFilter,
             methodFilter, roleFilter>>
dashVars == <<dashboardStats, statsLoading, recentTransactions, dash_loading>>
navVars == <<activeTab, role>>
vars == <<screen, mounted, token, net, submits, event, effects, invVars, payVars,
          usrVars, fltVars, dashVars, navVars>>
\* What no request handler of the list screens writes: the screen shown, the
\* stored token, the filters and the overview's state.
env == <<screen, token, fltVars, dashVars, navVars>>

\* event records the handler step just taken: the endpoint and the response a
\* continuation consumed (UiEv for a step that consumed none, NoTokenEv for a
\* handler that ended for want of a token before sending its request).
Ev(op, resp) == [op |-> op, status |-> resp.status, body |-> resp.body]
UiEv == [op |-> "ui", status |-> 0, body |-> NULL]
NoTokenEv(op) == [op |-> op, status |-> 0, body |-> NULL]

\* The remote service accepts only requests that carry a token: a request sent
\* with "Bearer null" is answered with an error status, or fails on the network.
Answerable(resp) == token # NULL \/ ~IsOk(resp)

InitInvoices ==
  /\ invoices = <<>>
  /\ inv_loading = TRUE
  /\ inv_error = NULL
  /\ showModal = FALSE
  /\ editingInvoice = NullRecord
  /\ showConfirmModal = FALSE
  /\ confirmAction = NULL
  /\ toastMessage = NULL
  /\ toastType = "success"
  /\ form = InvoiceFormOf(NullRecord)
  /\ modal_loading = FALSE
  /\ modal_error = NULL

InitPayments ==
  /\ payments = <<>>
  /\ pay_loading = TRUE
  /\ pay_error = NULL
  /\ pay_showCreateModal = FALSE
  /\ showUpdateModal = FALSE
  /\ pay_showDeleteModal = FALSE
  /\ selectedPayment = NullRecord
  /\ editingPayment = NullRecord
  /\ isSubmitting = FALSE
  /\ submitError = NULL
  /\ newPayment = InitialNewPayment

InitUsers ==
  /\ users = <<>>
  /\ isLoading = TRUE
  /\ usr_error = NULL
  /\ searchTerm = ""
  /\ usr_showCreateModal = FALSE
  /\ newUser = InitialNewUser
  /\ isAddingUser = FALSE
  /\ addUserError = NULL
  /\ showEditModal = FALSE
  /\ editingUser = NullRecord
  /\ editUser = InitialEditUser
  /\ isUpdatingUser = FALSE
  /\ updateUserError = NULL
  /\ usr_showDeleteModal = FALSE
  /\ userToDelete = NullRecord
  /\ isDeleting = FALSE
  /\ deleteError = NULL
  /\ mailingUserId = NULL
  /\ mailSuccessMessage = NULL
  /\ mailError = NULL

\* useState initial values of the search boxes and filter selects
InitFilters ==
  /\ inv_searchTerm = "" /\ inv_statusFilter = "all"
  /\ pay_searchTerm = "" /\ pay_statusFilter = "all" /\ methodFilter = "all"
  /\ roleFilter = "all"

\* useState initial values of Dashboard
InitDashboard ==
  /\ dashboardStats = NullRecord
  /\ statsLoading = TRUE
  /\ recentTransactions = <<>>
  /\ dash_loading = TRUE

\* The tab of the screen followed is the active one; the list screens never
\* read the signed-in user.
InitNav == activeTab = screen /\ role = "admin"

Init ==
  /\ screen \in Screens
  /\ InitNav
  /\ mounted = FALSE
  /\ token \in Tokens
  /\ net = EmptyBag
  /\ submits = 0
  /\ event = UiEv
  /\ effects = <<>>
  /\ InitInvoices
  /\ InitPayments
  /\ InitUsers
  /\ InitFilters
  /\ InitDashboard

\* ========================================================= InvoiceManagement
\* The synchronous part of fetchInvoices, run on the bag n with the toast
\* <<tm, tt>>: what it leaves in net, loading, error and the toast.
\* fetchInvoices sending its request twice
fetchInvoices_Twice(n, tm, tt) ==
  IF token = NULL
  THEN [net |-> n, loading |-> FALSE, error |-> "No authentication token found.",
        toastMessage |-> "Failed to fetch invoices.", toastType |-> "error"]
  ELSE [net |-> Send(Send(n, Req("GET /invoices", NULL, NULL)),
                     Req("GET /invoices", NULL, NULL)),
        loading |-> TRUE, error |-> NULL, toastMessage |-> tm, toastType |-> tt]

fetchInvoices(n, tm, tt) ==
  IF token = NULL
  THEN [net |-> n, loading |-> FALSE, error |-> "No authentication token found.",
        toastMessage |-> "Failed to fetch invoices.", toastType |-> "error"]
  ELSE [net |-> Send(n, Req("GET /invoices", NULL, NULL)), loading |-> TRUE,
        error |-> NULL, toastMessage |-> tm, toastType |-> tt]

\* A modal's overlay (fixed inset-0 z-50) covers the screen's controls.
NoInvoiceModal == ~showModal /\ ~showConfirmModal
\* The table rows are rendered only when not loading and without error.
InvoiceRows == IF ~inv_loading /\ inv_error = NULL THEN Range(invoices) ELSE {}

\* useEffect(() => { fetchInvoices(); }, [])
MountInvoices ==
  /\ screen = "invoices" /\ ~mounted
  /\ LET f == fetchInvoices(net, toastMessage, toastType) IN
       /\ net' = f.net
       /\ inv_loading' = f.loading
       /\ inv_error' = f.error
       /\ toastMessage' = f.toastMessage
       /\ toastType' = f.toastType
  /\ mounted' = TRUE
  /\ event' = IF token = NULL THEN NoTokenEv("GET /invoices") ELSE UiEv
  /\ effects' = <<"refetch">>
  /\ UNCHANGED <<env, submits, invoices, showModal, editingInvoice, showConfirmModal,
                 confirmAction, form, modal_loading, modal_error, payVars, usrVars>>

\* fetchInvoices after its await without the branch for 304
FetchInvoicesResponse_NoNotModified(req, resp) ==
  /\ screen = "invoices" /\ mounted
  /\ req \in BagToSet(net) /\ req.op = "GET /invoices"
  /\ Answerable(resp)
  /\ net' = Recv(net, req)
  /\ inv_loading' = FALSE
  /\ IF resp = NetErr THEN
       /\ inv_error' = FailedToFetch
       /\ toastMessage' = "Failed to fetch invoices." /\ toastType' = "error"
       /\ event' = Ev(req.op, resp)
       /\ UNCHANGED invoices
     ELSE IF ~IsOk(resp) THEN
       /\ inv_error' = "Failed to fetch invoices."
       /\ toastMessage' = "Failed to fetch invoices." /\ toastType' = "error"
       /\ event' = Ev(req.op, resp)
       /\ UNCHANGED invoices
     ELSE
       /\ invoices' = resp.data
       /\ event' = Ev(req.op, resp)
       /\ UNCHANGED <<inv_error, toastMessage, toastType>>
  /\ effects' = <<>>
  /\ UNCHANGED <<env, submits, mounted, showModal, editingInvoice, showConfirmModal,
                 confirmAction, form, modal_loading, modal_error, payVars, usrVars>>

\* fetchInvoices after its await: the response resp to the request req
FetchInvoicesResponse(req, resp) ==
  /\ screen = "invoices" /\ mounted
  /\ req \in BagToSet(net) /\ req.op = "GET /invoices"
  /\ Answerable(resp)
  /\ net' = Recv(net, req)
  /\ inv_loading' = FALSE
  /\ IF resp = NetErr THEN
       /\ inv_error' = FailedToFetch
       /\ toastMessage' = "Failed to fetch invoices." /\ toastType' = "error"
       /\ event' = Ev(req.op, resp)
       /\ UNCHANGED invoices
     ELSE IF resp.status = 304 THEN
       /\ event' = Ev(req.op, resp)
       /\ UNCHANGED <<invoices, inv_error, toastMessage, toastType>>
     ELSE IF ~IsOk(resp) THEN
       /\ inv_error' = "Failed to fetch invoices."
       /\ toastMessage' = "Failed to fetch invoices." /\ toastType' = "error"
       /\ event' = Ev(req.op, resp)
       /\ UNCHANGED invoices
     ELSE
       /\ invoices' = resp.data
       /\ event' = Ev(req.op, resp)
       /\ UNCHANGED <<inv_error, toastMessage, toastType>>
  /\ effects' = <<>>
  /\ UNCHANGED <<env, submits, mounted, showModal, editingInvoice, showConfirmModal,
                 confirmAction, form, modal_loading, modal_error, payVars, usrVars>>

handleCreateClick ==
  /\ screen = "invoices" /\ mounted /\ NoInvoiceModal
  /\ editingInvoice' = NullRecord
  /\ showModal' = TRUE
  /\ form' = InvoiceFormOf(NullRecord)
  /\ modal_loading' = FALSE
  /\ modal_error' = NULL
  /\ event' = UiEv /\ effects' = <<>>
  /\ UNCHANGED <<env, submits, mounted, net, invoices, inv_loading, inv_error,
                 showConfirmModal, confirmAction, toastMessage, toastType,
                 payVars, usrVars>>

handleEditClick(invoice) ==
  /\ screen = "invoices" /\ mounted /\ NoInvoiceModal
  /\ invoice \in InvoiceRows
  /\ editingInvoice' = invoice
  /\ showModal' = TRUE
  /\ form' = InvoiceFormOf(invoice)
  /\ modal_loading' = FALSE
  /\ modal_error' = NULL
  /\ event' = UiEv /\ effects' = <<>>
  /\ UNCHANGED <<env, submits, mounted, net, invoices, inv_loading, inv_error,
                 showConfirmModal, confirmAction, toastMessage, toastType,
                 payVars, usrVars>>

\* onChange of the modal's inputs
setInvoiceField(field, value) ==
  /\ screen = "invoices" /\ mounted /\ showModal
  /\ form' = [form EXCEPT ![field] = value]
  /\ event' = UiEv /\ effects' = <<>>
  /\ UNCHANGED <<env, submits, mounted, net, invoices, inv_loading, inv_error, showModal,
                 editingInvoice, showConfirmModal, confirmAction, toastMessage,
                 toastType, modal_loading, modal_error, payVars, usrVars>>

\* The modal's Cancel button (disabled while loading)
handleModalClose ==
  /\ screen = "invoices" /\ mounted /\ showModal /\ ~modal_loading
  /\ showModal' = FALSE
  /\ editingInvoice' = NullRecord
  /\ form' = InvoiceFormOf(NullRecord)
  /\ modal_loading' = FALSE
  /\ modal_error' = NULL
  /\ event' = UiEv /\ effects' = <<"close">>
  /\ UNCHANGED <<env, submits, mounted, net, invoices, inv_loading, inv_error,
                 showConfirmModal, confirmAction, toastMessage, toastType,
                 payVars, usrVars>>

\* handleSaveInvoice without the validation of the amount
handleSaveInvoice_NoAmountCheck ==
  /\ screen = "invoices" /\ mounted /\ showModal /\ ~modal_loading
  /\ IF trim(form.clientEmail) = "" THEN
       /\ modal_error' = "Client email is required."
       /\ modal_loading' = FALSE /\ event' = UiEv /\ UNCHANGED <<net, submits>>
     ELSE IF trim(form.dueDate) = "" THEN
       /\ modal_error' = "Due date is required."
       /\ modal_loading' = FALSE /\ event' = UiEv /\ UNCHANGED <<net, submits>>
     ELSE IF token = NULL THEN
       /\ modal_error' = "Authentication token not found."
       /\ modal_loading' = FALSE
       /\ event' = NoTokenEv(IF editingInvoice = NullRecord THEN "POST /invoices"
                             ELSE "PATCH /invoices")
       /\ UNCHANGED <<net, submits>>
     ELSE
       /\ submits < MaxSubmits /\ submits' = submits + 1
       /\ modal_error' = NULL
       /\ modal_loading' = TRUE
       /\ event' = UiEv
       /\ net' = Send(net, [(IF editingInvoice = NullRecord
                              THEN Req("POST /invoices", NULL, NULL)
                              ELSE Req("PATCH /invoices", editingInvoice.id, NULL))
                            EXCEPT !.body = invoiceData(editingInvoice, form)])
  /\ effects' = <<>>
  /\ UNCHANGED <<env, mounted, invoices, inv_loading, inv_error, showModal,
                 editingInvoice, showConfirmModal, confirmAction, toastMessage,
                 toastType, form, payVars, usrVars>>

\* handleSaveInvoice up to its await (the Save button is disabled while loading)
handleSaveInvoice ==
  /\ screen = "invoices" /\ mounted /\ showModal /\ ~modal_loading
  /\ IF trim(form.clientEmail) = "" THEN
       /\ modal_error' = "Client email is required."
       /\ modal_loading' = FALSE /\ event' = UiEv /\ UNCHANGED <<net, submits>>
     ELSE IF trim(form.amount) = "" \/ isNaN(parseFloat(form.amount)) THEN
       /\ modal_error' = "A valid amount is required."
       /\ modal_loading' = FALSE /\ event' = UiEv /\ UNCHANGED <<net, submits>>
     ELSE IF trim(form.dueDate) = "" THEN
       /\ modal_error' = "Due date is required."
       /\ modal_loading' = FALSE /\ event' = UiEv /\ UNCHANGED <<net, submits>>
     ELSE IF token = NULL THEN
       /\ modal_error' = "Authentication token not found."
       /\ modal_loading' = FALSE
       /\ event' = NoTokenEv(IF editingInvoice = NullRecord THEN "POST /invoices"
                             ELSE "PATCH /invoices")
       /\ UNCHANGED <<net, submits>>
     ELSE
       /\ submits < MaxSubmits /\ submits' = submits + 1
       /\ modal_error' = NULL
       /\ modal_loading' = TRUE
       /\ event' = UiEv
       /\ net' = Send(net, [(IF editingInvoice = NullRecord
                              THEN Req("POST /invoices", NULL, NULL)
                              ELSE Req("PATCH /invoices", editingInvoice.id, NULL))
                            EXCEPT !.body = invoiceData(editingInvoice, form)])
  /\ effects' = <<>>
  /\ UNCHANGED <<env, mounted, invoices, inv_loading, inv_error, showModal,
                 editingInvoice, showConfirmModal, confirmAction, toastMessage,
                 toastType, form, payVars, usrVars>>

\* The message handleSaveInvoice throws on a response that is not ok
SaveInvoiceError(isEditing, resp) ==
  LET verb == IF isEditing THEN "update" ELSE "create" IN
  IF resp = NetErr THEN FailedToFetch
  ELSE IF resp.body = NotJson
       THEN "Failed to " \o verb \o " invoice: " \o statusText(resp.status)
  ELSE IF resp.body = NoMessage THEN "Failed to " \o verb \o " invoice."
  ELSE resp.body

\* handleSaveInvoice after its await
SaveInvoiceResponse(req, resp) ==
  /\ screen = "invoices" /\ mounted
  /\ req \in BagToSet(net) /\ req.op \in {"POST /invoices", "PATCH /invoices"}
  /\ Answerable(resp)
  /\ LET isEditing == req.op = "PATCH /invoices" IN
     IF resp = NetErr \/ ~IsOk(resp) THEN
       /\ net' = Recv(net, req)
       /\ modal_error' = IF showModal THEN SaveInvoiceError(isEditing, resp)
                         ELSE modal_error
       /\ modal_loading' = FALSE
       /\ event' = Ev(req.op, resp)
       /\ effects' = <<"error">>
       /\ UNCHANGED <<inv_loading, inv_error, toastMessage, toastType, showModal,
                      editingInvoice, form>>
     ELSE
       \* onInvoiceSaved(message): fetchInvoices(); showToast(message, 'success')
       \* then setShowModal(false), which is handleModalClose
       LET f == fetchInvoices(Recv(net, req), toastMessage, toastType) IN
       /\ net' = f.net
       /\ inv_loading' = f.loading
       /\ inv_error' = f.error
       /\ toastMessage' = IF isEditing THEN "Invoice updated successfully!"
                          ELSE "Invoice created successfully!"
       /\ toastType' = "success"
       /\ showModal' = FALSE
       /\ editingInvoice' = NullRecord
       /\ form' = InvoiceFormOf(NullRecord)
       /\ modal_loading' = FALSE
       /\ modal_error' = NULL
       /\ event' = Ev(req.op, resp)
       /\ effects' = <<"refetch", "notify", "close">>
  /\ UNCHANGED <<env, submits, mounted, invoices, showConfirmModal, confirmAction,
                 payVars, usrVars>>

handleDeleteClick(invoice) ==
  /\ screen = "invoices" /\ mounted /\ NoInvoiceModal
  /\ invoice \in InvoiceRows
  /\ showConfirmModal' = TRUE
  /\ confirmAction' = invoice.id
  /\ event' = UiEv /\ effects' = <<>>
  /\ UNCHANGED <<env, submits, mounted, net, invoices, inv_loading, inv_error, showModal,
                 editingInvoice, toastMessage, toastType, form, modal_loading,
                 modal_error, payVars, usrVars>>

handleConfirmCancel ==
  /\ screen = "invoices" /\ mounted /\ showConfirmModal
  /\ showConfirmModal' = FALSE
  /\ event' = UiEv /\ effects' = <<"close">>
  /\ UNCHANGED <<env, submits, mounted, net, invoices, inv_loading, inv_error, showModal,
                 editingInvoice, confirmAction, toastMessage, toastType, form,
                 modal_loading, modal_error, payVars, usrVars>>

\* The confirmation modal's Delete button: confirmAction up to its await.
\* ConfirmationModal has no disabled state.
onConfirm ==
  /\ screen = "invoices" /\ mounted /\ showConfirmModal
  /\ IF token = NULL THEN
       /\ inv_error' = "Authentication token not found."
       /\ showConfirmModal' = FALSE
       /\ toastMessage' = "Failed to delete invoice." /\ toastType' = "error"
       /\ event' = NoTokenEv("DELETE /invoices")
       /\ effects' = <<"error", "close", "notify">>
       /\ UNCHANGED <<net, submits>>
     ELSE
       /\ submits < MaxSubmits /\ submits' = submits + 1
       /\ net' = Send(net, Req("DELETE /invoices", confirmAction, NULL))
       /\ event' = UiEv
       /\ effects' = <<>>
       /\ UNCHANGED <<inv_error, showConfirmModal, toastMessage, toastType>>
  /\ UNCHANGED <<env, mounted, invoices, inv_loading, showModal, editingInvoice,
                 confirmAction, form, modal_loading, modal_error, payVars, usrVars>>

\* confirmAction after its await
DeleteInvoiceResponse(req, resp) ==
  /\ screen = "invoices" /\ mounted
  /\ req \in BagToSet(net) /\ req.op = "DELETE /invoices"
  /\ Answerable(resp)
  /\ IF resp = NetErr \/ ~IsOk(resp) THEN
       /\ net' = Recv(net, req)
       /\ inv_error' = IF resp = NetErr THEN FailedToFetch
                       ELSE "Failed to delete invoice."
       /\ showConfirmModal' = FALSE
       /\ toastMessage' = "Failed to delete invoice." /\ toastType' = "error"
       /\ event' = Ev(req.op, resp)
       /\ effects' = <<"error", "close", "notify">>
       /\ UNCHANGED inv_loading
     ELSE
       LET f == fetchInvoices(Recv(net, req), toastMessage, toastType) IN
       /\ net' = f.net
       /\ inv_loading' = f.loading
       /\ inv_error' = f.error
       /\ showConfirmModal' = FALSE
       /\ toastMessage' = "Invoice deleted successfully!"
       /\ toastType' = "deletion"
       /\ event' = Ev(req.op, resp)
       /\ effects' = <<"refetch", "close", "notify">>
  /\ UNCHANGED <<env, submits, mounted, invoices, showModal, editingInvoice, confirmAction,
                 form, modal_loading, modal_error, payVars, usrVars>>

NextInvoices ==
  \/ MountInvoices
  \/ \E req \in BagToSet(net), resp \in Responses(InvoiceData) :
       FetchInvoicesResponse(req, resp)
  \/ handleCreateClick
  \/ \E invoice \in InvoiceRows : handleEditClick(invoice)
  \/ \E v \in TypedEmails : setInvoiceField("clientEmail", v)
  \/ \E v \in TypedAmounts : setInvoiceField("amount", v)
  \/ \E v \in TypedDueDates : setInvoiceField("dueDate", v)
  \/ handleModalClose
  \/ handleSaveInvoice
  \/ \E req \in BagToSet(net), resp \in MutationResponses :
       SaveInvoiceResponse(req, resp)
  \/ \E invoice \in InvoiceRows : handleDeleteClick(invoice)
  \/ handleConfirmCancel
  \/ onConfirm
  \/ \E req \in BagToSet(net), resp \in MutationResponses :
       DeleteInvoiceResponse(req, resp)

\* ========================================================= PaymentManagement
\* The synchronous part of fetchPayments on the bag n. awaiter names the
\* handler that awaits it ("submit": a mutation handler, NULL: nobody).
\* fetchPayments sending no request
fetchPayments_NoRequest(n, awaiter) ==
  [net |-> n, loading |-> TRUE, error |-> NULL]

fetchPayments(n, awaiter) ==
  [net |-> Send(n, Req("GET /payments", awaiter, NULL)), loading |-> TRUE,
   error |-> NULL]

NoPaymentModal == ~pay_showCreateModal /\ ~showUpdateModal /\ ~pay_showDeleteModal
\* The table is rendered only when !loading && !error.
PaymentRows == IF ~pay_loading /\ pay_error = NULL THEN Range(payments) ELSE {}

\* useEffect(() => { fetchPayments(); }, [])
MountPayments ==
  /\ screen = "payments" /\ ~mounted
  /\ LET f == fetchPayments(net, NULL) IN
       /\ net' = f.net /\ pay_loading' = f.loading /\ pay_error' = f.error
  /\ mounted' = TRUE
  /\ event' = UiEv /\ effects' = <<"refetch">>
  /\ UNCHANGED <<env, submits, payments, pay_showCreateModal, showUpdateModal,
                 pay_showDeleteModal, selectedPayment, editingPayment,
                 isSubmitting, submitError, newPayment, invVars, usrVars>>

\* fetchPayments after its await; when a mutation handler awaited this fetch,
\* that handler's finally block runs next and clears isSubmitting.
FetchPaymentsResponse(req, resp) ==
  /\ screen = "payments" /\ mounted
  /\ req \in BagToSet(net) /\ req.op = "GET /payments"
  /\ Answerable(resp)
  /\ net' = Recv(net, req)
  /\ pay_loading' = FALSE
  /\ IF resp = NetErr THEN
       /\ pay_error' = FailedToFetch
       /\ event' = Ev(req.op, resp)
       /\ UNCHANGED payments
     ELSE IF ~IsOk(resp) THEN
       /\ pay_error' = "HTTP error! status: " \o StatusStr(resp.status)
       /\ event' = Ev(req.op, resp)
       /\ UNCHANGED payments
     ELSE
       /\ payments' = mapData(resp.data)
       /\ event' = Ev(req.op, resp)
       /\ UNCHANGED pay_error
  /\ isSubmitting' = IF req.target = "submit" THEN FALSE ELSE isSubmitting
  /\ effects' = <<>>
  /\ UNCHANGED <<env, submits, mounted, pay_showCreateModal, showUpdateModal,
                 pay_showDeleteModal, selectedPayment, editingPayment,
                 submitError, newPayment, invVars, usrVars>>

\* The message a mutation handler of this screen throws on a failed request
PaymentMutationError(resp) ==
  IF resp = NetErr THEN FailedToFetch
  ELSE IF resp.body = NotJson THEN JsonSyntaxError
  ELSE IF resp.body = NoMessage THEN "An unknown error occurred."
  ELSE resp.body

\* The Record Payment button
openCreatePayment ==
  /\ screen = "payments" /\ mounted /\ NoPaymentModal
  /\ pay_showCreateModal' = TRUE
  /\ submitError' = NULL
  /\ event' = UiEv /\ effects' = <<>>
  /\ UNCHANGED <<env, submits, mounted, net, payments, pay_loading, pay_error,
                 showUpdateModal, pay_showDeleteModal, selectedPayment,
                 editingPayment, isSubmitting, newPayment, invVars, usrVars>>

handleCreateInputChange(name, value) ==
  /\ screen = "payments" /\ mounted /\ pay_showCreateModal
  /\ newPayment' = [newPayment EXCEPT ![name] = value]
  /\ event' = UiEv /\ effects' = <<>>
  /\ UNCHANGED <<env, submits, mounted, net, payments, pay_loading, pay_error,
                 pay_showCreateModal, showUpdateModal, pay_showDeleteModal,
                 selectedPayment, editingPayment, isSubmitting, submitError,
                 invVars, usrVars>>

\* Cancel of a payment modal (never disabled); which is "create", "update", "delete"
cancelPaymentModal(which) ==
  /\ screen = "payments" /\ mounted
  /\ CASE which = "create" ->
            /\ pay_showCreateModal /\ pay_showCreateModal' = FALSE
            /\ UNCHANGED <<showUpdateModal, pay_showDeleteModal>>
       [] which = "update" ->
            /\ showUpdateModal /\ showUpdateModal' = FALSE
            /\ UNCHANGED <<pay_showCreateModal, pay_showDeleteModal>>
       [] OTHER ->
            /\ pay_showDeleteModal /\ pay_showDeleteModal' = FALSE
            /\ UNCHANGED <<pay_showCreateModal, showUpdateModal>>
  /\ event' = UiEv /\ effects' = <<"close">>
  /\ UNCHANGED <<env, submits, mounted, net, payments, pay_loading, pay_error,
                 selectedPayment, editingPayment, isSubmitting, submitError,
                 newPayment, invVars, usrVars>>

\* handleCreatePayment up to its await (button disabled while isSubmitting).
\* toISOString runs before the try block: on an invalid date the handler
\* ends there with a RangeError.
handleCreatePayment ==
  /\ screen = "payments" /\ mounted /\ pay_showCreateModal /\ ~isSubmitting
  /\ isSubmitting' = TRUE
  /\ submitError' = NULL
  /\ IF InvalidDate(newPayment.date) THEN UNCHANGED <<net, submits>>
     ELSE /\ submits < MaxSubmits /\ submits' = submits + 1
          /\ net' = Send(net, Req("POST /payments", NULL, NULL))
  /\ event' = UiEv /\ effects' = <<>>
  /\ UNCHANGED <<env, mounted, payments, pay_loading, pay_error,
                 pay_showCreateModal, showUpdateModal, pay_showDeleteModal,
                 selectedPayment, editingPayment, newPayment, invVars, usrVars>>

\* handleCreatePayment after its await
CreatePaymentResponse(req, resp) ==
  /\ screen = "payments" /\ mounted
  /\ req \in BagToSet(net) /\ req.op = "POST /payments"
  /\ Answerable(resp)
  /\ IF resp = NetErr \/ ~IsOk(resp) THEN
       /\ net' = Recv(net, req)
       /\ submitError' = PaymentMutationError(resp)
       /\ isSubmitting' = FALSE
       /\ event' = Ev(req.op, resp)
       /\ effects' = <<"error">>
       /\ UNCHANGED <<pay_loading, pay_error, pay_showCreateModal, newPayment>>
     ELSE
       LET f == fetchPayments(Recv(net, req), "submit") IN
       /\ pay_showCreateModal' = FALSE
       /\ newPayment' = ResetNewPayment
       /\ net' = f.net /\ pay_loading' = f.loading /\ pay_error' = f.error
       /\ event' = Ev(req.op, resp)
       /\ effects' = <<"close", "clear", "refetch">>
       /\ UNCHANGED <<submitError, isSubmitting>>
  /\ UNCHANGED <<env, submits, mounted, payments, showUpdateModal, pay_showDeleteModal,
                 selectedPayment, editingPayment, invVars, usrVars>>

\* The row's Edit button
openUpdatePayment(payment) ==
  /\ screen = "payments" /\ mounted /\ NoPaymentModal
  /\ payment \in PaymentRows
  /\ editingPayment' = payment
  /\ showUpdateModal' = TRUE
  /\ submitError' = NULL
  /\ event' = UiEv /\ effects' = <<>>
  /\ UNCHANGED <<env, submits, mounted, net, payments, pay_loading, pay_error,
                 pay_showCreateModal, pay_showDeleteModal, selectedPayment,
                 isSubmitting, newPayment, invVars, usrVars>>

handleUpdateInputChange(name, value) ==
  /\ screen = "payments" /\ mounted /\ showUpdateModal
  /\ editingPayment # NullRecord
  /\ editingPayment' = [editingPayment EXCEPT ![name] = value]
  /\ event' = UiEv /\ effects' = <<>>
  /\ UNCHANGED <<env, submits, mounted, net, payments, pay_loading, pay_error,
                 pay_showCreateModal, showUpdateModal, pay_showDeleteModal,
                 selectedPayment, isSubmitting, submitError, newPayment,
                 invVars, usrVars>>

\* handleUpdatePayment up to its await
handleUpdatePayment ==
  /\ screen = "payments" /\ mounted /\ showUpdateModal /\ ~isSubmitting
  /\ editingPayment # NullRecord
  /\ submits < MaxSubmits /\ submits' = submits + 1
  /\ isSubmitting' = TRUE
  /\ submitError' = NULL
  /\ net' = Send(net, Req("PATCH /payments", editingPayment.id, NULL))
  /\ event' = UiEv /\ effects' = <<>>
  /\ UNCHANGED <<env, mounted, payments, pay_loading, pay_error,
                 pay_showCreateModal, showUpdateModal, pay_showDeleteModal,
                 selectedPayment, editingPayment, newPayment, invVars, usrVars>>

\* handleUpdatePayment after its await
UpdatePaymentResponse(req, resp) ==
  /\ screen = "payments" /\ mounted
  /\ req \in BagToSet(net) /\ req.op = "PATCH /payments"
  /\ Answerable(resp)
  /\ IF resp = NetErr \/ ~IsOk(resp) THEN
       /\ net' = Recv(net, req)
       /\ submitError' = PaymentMutationError(resp)
       /\ isSubmitting' = FALSE
       /\ event' = Ev(req.op, resp)
       /\ effects' = <<"error">>
       /\ UNCHANGED <<pay_loading, pay_error, showUpdateModal, editingPayment>>
     ELSE
       LET f == fetchPayments(Recv(net, req), "submit") IN
       /\ showUpdateModal' = FALSE
       /\ editingPayment' = NullRecord
       /\ net' = f.net /\ pay_loading' = f.loading /\ pay_error' = f.error
       /\ event' = Ev(req.op, resp)
       /\ effects' = <<"close", "clear", "refetch">>
       /\ UNCHANGED <<submitError, isSubmitting>>
  /\ UNCHANGED <<env, submits, mounted, payments, pay_showCreateModal, pay_showDeleteModal,
                 selectedPayment, newPayment, invVars, usrVars>>

\* The row's Delete button
openDeletePayment(payment) ==
  /\ screen = "payments" /\ mounted /\ NoPaymentModal
  /\ payment \in PaymentRows
  /\ selectedPayment' = payment
  /\ pay_showDeleteModal' = TRUE
  /\ submitError' = NULL
  /\ event' = UiEv /\ effects' = <<>>
  /\ UNCHANGED <<env, submits, mounted, net, payments, pay_loading, pay_error,
                 pay_showCreateModal, showUpdateModal, editingPayment,
                 isSubmitting, newPayment, invVars, usrVars>>

\* handleDeletePayment up to its await
handleDeletePayment ==
  /\ screen = "payments" /\ mounted /\ pay_showDeleteModal /\ ~isSubmitting
  /\ selectedPayment # NullRecord
  /\ submits < MaxSubmits /\ submits' = submits + 1
  /\ isSubmitting' = TRUE
  /\ submitError' = NULL
  /\ net' = Send(net, Req("DELETE /payments", selectedPayment.id, NULL))
  /\ event' = UiEv /\ effects' = <<>>
  /\ UNCHANGED <<env, mounted, payments, pay_loading, pay_error,
                 pay_showCreateModal, showUpdateModal, pay_showDeleteModal,
                 selectedPayment, editingPayment, newPayment, invVars, usrVars>>

\* handleDeletePayment after its await
DeletePaymentResponse(req, resp) ==
  /\ screen = "payments" /\ mounted
  /\ req \in BagToSet(net) /\ req.op = "DELETE /payments"
  /\ Answerable(resp)
  /\ IF resp = NetErr \/ ~IsOk(resp) THEN
       /\ net' = Recv(net, req)
       /\ submitError' = PaymentMutationError(resp)
       /\ isSubmitting' = FALSE
       /\ event' = Ev(req.op, resp)
       /\ effects' = <<"error">>
       /\ UNCHANGED <<pay_loading, pay_error, pay_showDeleteModal, selectedPayment>>
     ELSE
       LET f == fetchPayments(Recv(net, req), "submit") IN
       /\ pay_showDeleteModal' = FALSE
       /\ selectedPayment' = NullRecord
       /\ net' = f.net /\ pay_loading' = f.loading /\ pay_error' = f.error
       /\ event' = Ev(req.op, resp)
       /\ effects' = <<"close", "clear", "refetch">>
       /\ UNCHANGED <<submitError, isSubmitting>>
  /\ UNCHANGED <<env, submits, mounted, payments, pay_showCreateModal, showUpdateModal,
                 editingPayment, newPayment, invVars, usrVars>>

NextPayments ==
  \/ MountPayments
  \/ \E req \in BagToSet(net), resp \in Responses(PaymentData) :
       FetchPaymentsResponse(req, resp)
  \/ openCreatePayment
  \/ \E v \in TypedDates : handleCreateInputChange("date", v)
  \/ \E which \in {"create", "update", "delete"} : cancelPaymentModal(which)
  \/ handleCreatePayment
  \/ \E req \in BagToSet(net), resp \in MutationResponses :
       CreatePaymentResponse(req, resp)
  \/ \E payment \in PaymentRows : openUpdatePayment(payment)
  \/ \E v \in TypedStatuses : handleUpdateInputChange("status", v)
  \/ handleUpdatePayment
  \/ \E req \in BagToSet(net), resp \in MutationResponses :
       UpdatePaymentResponse(req, resp)
  \/ \E payment \in PaymentRows : openDeletePayment(payment)
  \/ handleDeletePayment
  \/ \E req \in BagToSet(net), resp \in MutationResponses :
       DeletePaymentResponse(req, resp)

\* ============================================================ UserManagement
\* The synchronous part of fetchUsers on the bag n; term is the searchTerm of
\* the render whose closure runs it.
fetchUsers(n, term) ==
  [net |-> Send(n, Req("GET /users", NULL, term)), loading |-> TRUE,
   error |-> NULL]

NoUserModal == ~usr_showCreateModal /\ ~showEditModal /\ ~usr_showDeleteModal
\* The rows are rendered only when not loading and without error.
UserRows == IF ~isLoading /\ usr_error = NULL THEN Range(users) ELSE {}

\* useEffect(() => { fetchUsers(); }, [searchTerm]) on mount
MountUsers ==
  /\ screen = "users" /\ ~mounted
  /\ LET f == fetchUsers(net, searchTerm) IN
       /\ net' = f.net /\ isLoading' = f.loading /\ usr_error' = f.error
  /\ mounted' = TRUE
  /\ event' = UiEv /\ effects' = <<"refetch">>
  /\ UNCHANGED <<env, submits, users, searchTerm, usr_showCreateModal, newUser,
                 isAddingUser, addUserError, showEditModal, editingUser, editUser,
                 isUpdatingUser, updateUserError, usr_showDeleteModal,
                 userToDelete, isDeleting, deleteError, mailingUserId,
                 mailSuccessMessage, mailError, invVars, payVars>>

\* onChange of the search box, and the effect its re-render runs
setSearchTerm(value) ==
  /\ screen = "users" /\ mounted /\ NoUserModal
  /\ value # searchTerm
  /\ submits < MaxSubmits /\ submits' = submits + 1
  /\ searchTerm' = value
  /\ LET f == fetchUsers(net, value) IN
       /\ net' = f.net /\ isLoading' = f.loading /\ usr_error' = f.error
  /\ event' = UiEv /\ effects' = <<"refetch">>
  /\ UNCHANGED <<env, mounted, users, usr_showCreateModal, newUser,
                 isAddingUser, addUserError, showEditModal, editingUser, editUser,
                 isUpdatingUser, updateUserError, usr_showDeleteModal,
                 userToDelete, isDeleting, deleteError, mailingUserId,
                 mailSuccessMessage, mailError, invVars, payVars>>

\* fetchUsers after its await
FetchUsersResponse(req, resp) ==
  /\ screen = "users" /\ mounted
  /\ req \in BagToSet(net) /\ req.op = "GET /users"
  /\ Answerable(resp)
  /\ resp \in Responses({UsersFor(req.term)})
  /\ net' = Recv(net, req)
  /\ isLoading' = FALSE
  /\ IF resp = NetErr THEN
       /\ usr_error' = FailedToFetch
       /\ users' = <<>>
       /\ event' = Ev(req.op, resp)
     ELSE IF ~IsOk(resp) THEN
       /\ usr_error' = "HTTP error! status: " \o StatusStr(resp.status)
       /\ users' = <<>>
       /\ event' = Ev(req.op, resp)
     ELSE
       /\ users' = resp.data
       /\ event' = Ev(req.op, resp)
       /\ UNCHANGED usr_error
  /\ effects' = <<>>
  /\ UNCHANGED <<env, submits, mounted, searchTerm, usr_showCreateModal, newUser,
                 isAddingUser, addUserError, showEditModal, editingUser, editUser,
                 isUpdatingUser, updateUserError, usr_showDeleteModal,
                 userToDelete, isDeleting, deleteError, mailingUserId,
                 mailSuccessMessage, mailError, invVars, payVars>>

\* The message a handler of this screen throws on a failed request
UserMutationError(what, resp) ==
  IF resp = NetErr THEN FailedToFetch
  ELSE what \o StatusStr(resp.status)

\* The Add User button
openCreateUser ==
  /\ screen = "users" /\ mounted /\ NoUserModal
  /\ usr_showCreateModal' = TRUE
  /\ event' = UiEv /\ effects' = <<>>
  /\ UNCHANGED <<env, submits, mounted, net, users, isLoading, usr_error, searchTerm,
                 newUser, isAddingUser, addUserError, showEditModal, editingUser,
                 editUser, isUpdatingUser, updateUserError, usr_showDeleteModal,
                 userToDelete, isDeleting, deleteError, mailingUserId,
                 mailSuccessMessage, mailError, invVars, payVars>>

setNewUserName(value) ==
  /\ screen = "users" /\ mounted /\ usr_showCreateModal
  /\ newUser' = [newUser EXCEPT !.newUserName = value]
  /\ event' = UiEv /\ effects' = <<>>
  /\ UNCHANGED <<env, submits, mounted, net, users, isLoading, usr_error, searchTerm,
                 usr_showCreateModal, isAddingUser, addUserError, showEditModal,
                 editingUser, editUser, isUpdatingUser, updateUserError,
                 usr_showDeleteModal, userToDelete, isDeleting, deleteError,
                 mailingUserId, mailSuccessMessage, mailError, invVars, payVars>>

\* Cancel of a users modal (never disabled); which is "create", "edit", "delete"
cancelUserModal(which) ==
  /\ screen = "users" /\ mounted
  /\ CASE which = "create" ->
            /\ usr_showCreateModal /\ usr_showCreateModal' = FALSE
            /\ UNCHANGED <<showEditModal, usr_showDeleteModal>>
       [] which = "edit" ->
            /\ showEditModal /\ showEditModal' = FALSE
            /\ UNCHANGED <<usr_showCreateModal, usr_showDeleteModal>>
       [] OTHER ->
            /\ usr_showDeleteModal /\ usr_showDeleteModal' = FALSE
            /\ UNCHANGED <<usr_showCreateModal, showEditModal>>
  /\ event' = UiEv /\ effects' = <<"close">>
  /\ UNCHANGED <<env, submits, mounted, net, users, isLoading, usr_error, searchTerm,
                 newUser, isAddingUser, addUserError, editingUser, editUser,
                 isUpdatingUser, updateUserError, userToDelete, isDeleting,
                 deleteError, mailingUserId, mailSuccessMessage, mailError,
                 invVars, payVars>>

\* handleAddUser up to its await (button disabled while isAddingUser)
handleAddUser ==
  /\ screen = "users" /\ mounted /\ usr_showCreateModal /\ ~isAddingUser
  /\ submits < MaxSubmits /\ submits' = submits + 1
  /\ isAddingUser' = TRUE
  /\ addUserError' = NULL
  /\ net' = Send(net, Req("POST /users", NULL, searchTerm))
  /\ event' = UiEv /\ effects' = <<>>
  /\ UNCHANGED <<env, mounted, users, isLoading, usr_error, searchTerm,
                 usr_showCreateModal, newUser, showEditModal, editingUser,
                 editUser, isUpdatingUser, updateUserError, usr_showDeleteModal,
                 userToDelete, isDeleting, deleteError, mailingUserId,
                 mailSuccessMessage, mailError, invVars, payVars>>

\* handleAddUser after its await; its fetchUsers is the one of the render in
\* which the button was clicked
AddUserResponse(req, resp) ==
  /\ screen = "users" /\ mounted
  /\ req \in BagToSet(net) /\ req.op = "POST /users"
  /\ Answerable(resp)
  /\ isAddingUser' = FALSE
  /\ IF resp = NetErr \/ ~IsOk(resp) THEN
       /\ net' = Recv(net, req)
       /\ addUserError' = UserMutationError("Failed to add user! Status: ", resp)
       /\ event' = Ev(req.op, resp)
       /\ effects' = <<"error">>
       /\ UNCHANGED <<isLoading, usr_error, newUser, usr_showCreateModal>>
     ELSE
       LET f == fetchUsers(Recv(net, req), req.term) IN
       /\ net' = f.net /\ isLoading' = f.loading /\ usr_error' = f.error
       /\ newUser' = InitialNewUser
       /\ usr_showCreateModal' = FALSE
       /\ event' = Ev(req.op, resp)
       /\ effects' = <<"refetch", "clear", "close">>
       /\ UNCHANGED addUserError
  /\ UNCHANGED <<env, submits, mounted, users, searchTerm, showEditModal, editingUser,
                 editUser, isUpdatingUser, updateUserError, usr_showDeleteModal,
                 userToDelete, isDeleting, deleteError, mailingUserId,
                 mailSuccessMessage, mailError, invVars, payVars>>

handleEditUser(user) ==
  /\ screen = "users" /\ mounted /\ NoUserModal
  /\ user \in UserRows
  /\ editingUser' = user
  /\ editUser' = [editUserName |-> user.name, editUserEmail |-> user.email,
                  editUserRole |-> user.role, editUserPassword |-> ""]
  /\ showEditModal' = TRUE
  /\ event' = UiEv /\ effects' = <<>>
  /\ UNCHANGED <<env, submits, mounted, net, users, isLoading, usr_error, searchTerm,
                 usr_showCreateModal, newUser, isAddingUser, addUserError,
                 isUpdatingUser, updateUserError, usr_showDeleteModal,
                 userToDelete, isDeleting, deleteError, mailingUserId,
                 mailSuccessMessage, mailError, invVars, payVars>>

\* handleUpdateUser up to its await
handleUpdateUser ==
  /\ screen = "users" /\ mounted /\ showEditModal /\ ~isUpdatingUser
  /\ editingUser # NullRecord
  /\ submits < MaxSubmits /\ submits' = submits + 1
  /\ isUpdatingUser' = TRUE
  /\ updateUserError' = NULL
  /\ net' = Send(net, Req("PATCH /users", editingUser.id, searchTerm))
  /\ event' = UiEv /\ effects' = <<>>
  /\ UNCHANGED <<env, mounted, users, isLoading, usr_error, searchTerm,
                 usr_showCreateModal, newUser, isAddingUser, addUserError,
                 showEditModal, editingUser, editUser, usr_showDeleteModal,
                 userToDelete, isDeleting, deleteError, mailingUserId,
                 mailSuccessMessage, mailError, invVars, payVars>>

\* handleUpdateUser after its await
UpdateUserResponse(req, resp) ==
  /\ screen = "users" /\ mounted
  /\ req \in BagToSet(net) /\ req.op = "PATCH /users"
  /\ Answerable(resp)
  /\ isUpdatingUser' = FALSE
  /\ IF resp = NetErr \/ ~IsOk(resp) THEN
       /\ net' = Recv(net, req)
       /\ updateUserError' =
            UserMutationError("Failed to update user! Status: ", resp)
       /\ event' = Ev(req.op, resp)
       /\ effects' = <<"error">>
       /\ UNCHANGED <<isLoading, usr_error, editingUser, editUser, showEditModal>>
     ELSE
       LET f == fetchUsers(Recv(net, req), req.term) IN
       /\ net' = f.net /\ isLoading' = f.loading /\ usr_error' = f.error
       /\ editingUser' = NullRecord
       /\ editUser' = [editUser EXCEPT !.editUserName = "", !.editUserEmail = "",
                                       !.editUserRole = "accountant"]
       /\ showEditModal' = FALSE
       /\ event' = Ev(req.op, resp)
       /\ effects' = <<"refetch", "clear", "close">>
       /\ UNCHANGED updateUserError
  /\ UNCHANGED <<env, submits, mounted, users, searchTerm, usr_showCreateModal, newUser,
                 isAddingUser, addUserError, usr_showDeleteModal, userToDelete,
                 isDeleting, deleteError, mailingUserId, mailSuccessMessage,
                 mailError, invVars, payVars>>

confirmDelete(user) ==
  /\ screen = "users" /\ mounted /\ NoUserModal
  /\ user \in UserRows
  /\ userToDelete' = user
  /\ usr_showDeleteModal' = TRUE
  /\ event' = UiEv /\ effects' = <<>>
  /\ UNCHANGED <<env, submits, mounted, net, users, isLoading, usr_error, searchTerm,
                 usr_showCreateModal, newUser, isAddingUser, addUserError,
                 showEditModal, editingUser, editUser, isUpdatingUser,
                 updateUserError, isDeleting, deleteError, mailingUserId,
                 mailSuccessMessage, mailError, invVars, payVars>>

\* handleDeleteUser up to its await
handleDeleteUser ==
  /\ screen = "users" /\ mounted /\ usr_showDeleteModal /\ ~isDeleting
  /\ userToDelete # NullRecord
  /\ submits < MaxSubmits /\ submits' = submits + 1
  /\ isDeleting' = TRUE
  /\ deleteError' = NULL
  /\ net' = Send(net, Req("DELETE /users", userToDelete.id, searchTerm))
  /\ event' = UiEv /\ effects' = <<>>
  /\ UNCHANGED <<env, mounted, users, isLoading, usr_error, searchTerm,
                 usr_showCreateModal, newUser, isAddingUser, addUserError,
                 showEditModal, editingUser, editUser, isUpdatingUser,
                 updateUserError, usr_showDeleteModal, userToDelete,
                 mailingUserId, mailSuccessMessage, mailError, invVars, payVars>>

\* handleDeleteUser after its await
DeleteUserResponse(req, resp) ==
  /\ screen = "users" /\ mounted
  /\ req \in BagToSet(net) /\ req.op = "DELETE /users"
  /\ Answerable(resp)
  /\ isDeleting' = FALSE
  /\ IF resp = NetErr \/ ~IsOk(resp) THEN
       /\ net' = Recv(net, req)
       /\ deleteError' = UserMutationError("Failed to delete user! Status: ", resp)
       /\ event' = Ev(req.op, resp)
       /\ effects' = <<"error">>
       /\ UNCHANGED <<isLoading, usr_error, userToDelete, usr_showDeleteModal>>
     ELSE
       LET f == fetchUsers(Recv(net, req), req.term) IN
       /\ net' = f.net /\ isLoading' = f.loading /\ usr_error' = f.error
       /\ userToDelete' = NullRecord
       /\ usr_showDeleteModal' = FALSE
       /\ event' = Ev(req.op, resp)
       /\ effects' = <<"refetch", "clear", "close">>
       /\ UNCHANGED deleteError
  /\ UNCHANGED <<env, submits, mounted, users, searchTerm, usr_showCreateModal, newUser,
                 isAddingUser, addUserError, showEditModal, editingUser, editUser,
                 isUpdatingUser, updateUserError, mailingUserId,
                 mailSuccessMessage, mailError, invVars, payVars>>

\* handleMailUser up to its await (the row's button is disabled only while
\* mailingUserId is that row's id)
handleMailUser(user) ==
  /\ screen = "users" /\ mounted /\ NoUserModal
  /\ user \in UserRows
  /\ mailingUserId # user.id
  /\ submits < MaxSubmits /\ submits' = submits + 1
  /\ mailingUserId' = user.id
  /\ mailError' = NULL
  /\ mailSuccessMessage' = NULL
  /\ net' = Send(net, Req("POST /users/reset-password", user.id, NULL))
  /\ event' = UiEv /\ effects' = <<>>
  /\ UNCHANGED <<env, mounted, users, isLoading, usr_error, searchTerm,
                 usr_showCreateModal, newUser, isAddingUser, addUserError,
                 showEditModal, editingUser, editUser, isUpdatingUser,
                 updateUserError, usr_showDeleteModal, userToDelete, isDeleting,
                 deleteError, invVars, payVars>>

\* handleMailUser after its await
MailUserResponse(req, resp) ==
  /\ screen = "users" /\ mounted
  /\ req \in BagToSet(net) /\ req.op = "POST /users/reset-password"
  /\ Answerable(resp)
  /\ net' = Recv(net, req)
  /\ mailingUserId' = NULL
  /\ IF resp = NetErr \/ ~IsOk(resp) THEN
       /\ mailError' =
            UserMutationError("Failed to initiate password reset! Status: ", resp)
       /\ event' = Ev(req.op, resp)
       /\ effects' = <<"error">>
       /\ UNCHANGED mailSuccessMessage
     ELSE
       /\ mailSuccessMessage' = "A password reset link has been sent"
       /\ event' = Ev(req.op, resp)
       /\ effects' = <<"notify">>
       /\ UNCHANGED mailError
  /\ UNCHANGED <<env, submits, mounted, users, isLoading, usr_error, searchTerm,
                 usr_showCreateModal, newUser, isAddingUser, addUserError,
                 showEditModal, editingUser, editUser, isUpdatingUser,
                 updateUserError, usr_showDeleteModal, userToDelete, isDeleting,
                 deleteError, invVars, payVars>>

NextUsers ==
  \/ MountUsers
  \/ \E value \in SearchTerms : setSearchTerm(value)
  \/ \E req \in BagToSet(net), resp \in Responses({<<U1>>, <<U1, U2>>}) :
       FetchUsersResponse(req, resp)
  \/ openCreateUser
  \/ \E value \in TypedNames : setNewUserName(value)
  \/ \E which \in {"create", "edit", "delete"} : cancelUserModal(which)
  \/ handleAddUser
  \/ \E req \in BagToSet(net), resp \in MutationResponses : AddUserResponse(req, resp)
  \/ \E user \in UserRows : handleEditUser(user)
  \/ handleUpdateUser
  \/ \E req \in BagToSet(net), resp \in MutationResponses :
       UpdateUserResponse(req, resp)
  \/ \E user \in UserRows : confirmDelete(user)
  \/ handleDeleteUser
  \/ \E req \in BagToSet(net), resp \in MutationResponses :
       DeleteUserResponse(req, resp)
  \/ \E user \in UserRows : handleMailUser(user)
  \/ \E req \in BagToSet(net), resp \in MutationResponses : MailUserResponse(req, resp)

Next == NextInvoices \/ NextPayments \/ NextUsers

Spec == Init /\ [][Next]_vars


\* ------------------------------------------------ filtered views and totals
\* const filteredInvoices = invoices.filter(...)
filteredInvoices ==
  LET term == lowerText(Chars(inv_searchTerm))
      keep(invoice) ==
        LET matchesSearch ==
              \/ includes(lowerText(nameFromEmail(invoice.client_email)), term)
              \/ includes(lowerText(Chars(invoice.id)), term)
              \/ includes(lowerText(Chars(invoice.client_email)), term)
            matchesStatus ==
              \/ inv_statusFilter = "all"
              \/ toLowerCase(invoice.status) = toLowerCase(inv_statusFilter)
        IN matchesSearch /\ matchesStatus
  IN SelectSeq(invoices, keep)
inv_totalAmount ==
  reduceSum([i \in DOMAIN filteredInvoices |-> parseFloat(filteredInvoices[i].amount)], 0)
inv_pendingAmount ==
  reduceSum([i \in DOMAIN filteredInvoices |-> parseFloat(filteredInvoices[i].over_due)], 0)
\* paidAmount taken over the stored invoices instead of the filtered ones
paidAmount_Unfiltered ==
  Minus(reduceSum([i \in DOMAIN invoices |-> parseFloat(invoices[i].amount)], 0),
        reduceSum([i \in DOMAIN invoices |-> parseFloat(invoices[i].over_due)], 0))
paidAmount == Minus(inv_totalAmount, inv_pendingAmount)
overdueAmount ==
  LET overdue == SelectSeq(filteredInvoices,
                        LAMBDA invoice : toLowerCase(invoice.status) = "overdue")
  IN reduceSum([i \in DOMAIN overdue |-> parseFloat(overdue[i].amount)], 0)

\* filteredPayments without the method filter
filteredPayments_NoMethod ==
  LET term == lowerText(Chars(pay_searchTerm))
      keep(payment) ==
        /\ \/ includes(lowerText(Chars(payment.clientName)), term)
           \/ includes(lowerText(Chars(payment.transactionId)), term)
           \/ includes(lowerText(Chars(payment.invoiceNumber)), term)
        /\ pay_statusFilter = "all" \/ payment.status = pay_statusFilter
  IN SelectSeq(payments, keep)

\* const filteredPayments = payments.filter(...)
filteredPayments ==
  LET term == lowerText(Chars(pay_searchTerm))
      keep(payment) ==
        LET matchesSearch ==
              \/ includes(lowerText(Chars(payment.clientName)), term)
              \/ includes(lowerText(Chars(payment.transactionId)), term)
              \/ includes(lowerText(Chars(payment.invoiceNumber)), term)
            matchesStatus ==
              pay_statusFilter = "all" \/ payment.status = pay_statusFilter
            matchesMethod ==
              \/ methodFilter = "all"
              \/ replaceSpace(payment.paymentMethod) = replaceSpace(methodFilter)
        IN matchesSearch /\ matchesStatus /\ matchesMethod
  IN SelectSeq(payments, keep)
\* The sum of the amounts of the filtered payments of one status
amountOfStatus(status) ==
  LET ofStatus == SelectSeq(filteredPayments, LAMBDA payment : payment.status = status)
  IN reduceSum([i \in DOMAIN ofStatus |-> ofStatus[i].amount], 0)
pay_totalAmount ==
  reduceSum([i \in DOMAIN filteredPayments |-> filteredPayments[i].amount], 0)
completedAmount == amountOfStatus("completed")
pay_pendingAmount == amountOfStatus("pending")

\* const filteredUsers = users.filter(...)
filteredUsers ==
  SelectSeq(users, LAMBDA user : roleFilter = "all" \/ user.role = roleFilter)
totalUsers == Len(filteredUsers)

\* A filter change that also stores the filtered views as the collections
setFilters_StoresView(scr, free, is, ist, ps, pst, mf, rf) ==
  /\ screen = scr /\ mounted /\ free
  /\ <<is, ist, ps, pst, mf, rf>> # fltVars
  /\ inv_searchTerm' = is /\ inv_statusFilter' = ist
  /\ pay_searchTerm' = ps /\ pay_statusFilter' = pst /\ methodFilter' = mf
  /\ roleFilter' = rf
  /\ invoices' = filteredInvoices /\ payments' = filteredPayments
  /\ users' = filteredUsers
  /\ event' = UiEv /\ effects' = <<>>
  /\ UNCHANGED <<navVars, screen, token, mounted, net, submits, dashVars, inv_loading,
                 inv_error, showModal, editingInvoice, showConfirmModal,
                 confirmAction, toastMessage, toastType, form, modal_loading,
                 modal_error, pay_loading, pay_error, pay_showCreateModal,
                 showUpdateModal, pay_showDeleteModal, selectedPayment,
                 editingPayment, isSubmitting, submitError, newPayment, isLoading,
                 usr_error, searchTerm, usr_showCreateModal, newUser, isAddingUser,
                 addUserError, showEditModal, editingUser, editUser, isUpdatingUser,
                 updateUserError, usr_showDeleteModal, userToDelete, isDeleting,
                 deleteError, mailingUserId, mailSuccessMessage, mailError>>

\* onChange of a search box or of a filter select: one setState
setFilters(scr, free, is, ist, ps, pst, mf, rf) ==
  /\ screen = scr /\ mounted /\ free
  /\ <<is, ist, ps, pst, mf, rf>> # fltVars
  /\ inv_searchTerm' = is /\ inv_statusFilter' = ist
  /\ pay_searchTerm' = ps /\ pay_statusFilter' = pst /\ methodFilter' = mf
  /\ roleFilter' = rf
  /\ event' = UiEv /\ effects' = <<>>
  /\ UNCHANGED <<navVars, screen, token, mounted, net, submits, invVars, payVars, usrVars,
                 dashVars>>
setInvoiceSearchTerm(value) ==
  setFilters("invoices", NoInvoiceModal, value, inv_statusFilter, pay_searchTerm,
             pay_statusFilter, methodFilter, roleFilter)
setInvoiceStatusFilter(value) ==
  setFilters("invoices", NoInvoiceModal, inv_searchTerm, value, pay_searchTerm,
             pay_statusFilter, methodFilter, roleFilter)
setPaymentSearchTerm(value) ==
  setFilters("payments", NoPaymentModal, inv_searchTerm, inv_statusFilter, value,
             pay_statusFilter, methodFilter, roleFilter)
setPaymentStatusFilter(value) ==
  setFilters("payments", NoPaymentModal, inv_searchTerm, inv_statusFilter,
             pay_searchTerm, value, methodFilter, roleFilter)
setMethodFilter(value) ==
  setFilters("payments", NoPaymentModal, inv_searchTerm, inv_statusFilter,
             pay_searchTerm, pay_statusFilter, value, roleFilter)
setRoleFilter(value) ==
  setFilters("users", NoUserModal, inv_searchTerm, inv_statusFilter, pay_searchTerm,
             pay_statusFilter, methodFilter, value)

\* ---------------------------------------------------------------- overview
\* const methodData = useMemo(...)
methodData == countMethods(recentTransactions, <<>>)
\* outstandingData with an "Others" entry also when the balance is zero
outstandingData_OthersAtZero ==
  IF dashboardStats = NullRecord \/ Len(dashboardStats.topDebtors) = 0 THEN <<>>
  ELSE LET sorted == sortByOutstanding(dashboardStats.topDebtors)
           picked == slice0(sorted, topN)
           top == [i \in DOMAIN picked |->
                     [name |-> beforeAt(Chars(picked[i].clientEmail)),
                      value |-> picked[i].outstanding]]
           topSum == reduceSum([i \in DOMAIN top |-> top[i].value], 0)
           balanceOutstanding == dashboardStats.totalOutstanding - topSum
       IN IF balanceOutstanding >= 0
          THEN Append(top, [name |-> "Others", value |-> balanceOutstanding])
          ELSE top

\* const outstandingData = useMemo(...)
outstandingData ==
  IF dashboardStats = NullRecord \/ Len(dashboardStats.topDebtors) = 0 THEN <<>>
  ELSE LET sorted == sortByOutstanding(dashboardStats.topDebtors)
           picked == slice0(sorted, topN)
           top == [i \in DOMAIN picked |->
                     [name |-> beforeAt(Chars(picked[i].clientEmail)),
                      value |-> picked[i].outstanding]]
           totalOutstanding == dashboardStats.totalOutstanding
           topSum == reduceSum([i \in DOMAIN top |-> top[i].value], 0)
           balanceOutstanding == totalOutstanding - topSum
       IN IF balanceOutstanding > 0
          THEN Append(top, [name |-> "Others", value |-> balanceOutstanding])
          ELSE top
\* The Top Debtors card: dashboardStats?.topDebtors.slice(0, 3)
topDebtorsCard ==
  IF dashboardStats = NullRecord THEN <<>> ELSE slice0(dashboardStats.topDebtors, 3)

\* Both mount effects of Dashboard, each up to its await
MountDashboard ==
  /\ screen = "overview" /\ ~mounted
  /\ mounted' = TRUE
  /\ IF token = NULL
     THEN /\ statsLoading' = FALSE /\ dash_loading' = FALSE
          /\ net' = net
          /\ event' = NoTokenEv("GET /reports/overview")
     ELSE /\ net' = Send(Send(net, Req("GET /reports/overview", NULL, NULL)),
                         Req("GET /payments", "recent", NULL))
          /\ event' = UiEv
          /\ UNCHANGED <<statsLoading, dash_loading>>
  /\ effects' = <<>>
  /\ UNCHANGED <<navVars, screen, token, submits, dashboardStats, recentTransactions,
                 invVars, payVars, usrVars, fltVars>>

\* fetchDashboardStats clearing the other fetch's loading flag as well
FetchDashboardStatsResponse_SharedFlag(req, resp) ==
  /\ screen = "overview" /\ mounted
  /\ req \in BagToSet(net) /\ req.op = "GET /reports/overview"
  /\ Answerable(resp)
  /\ net' = Recv(net, req)
  /\ dashboardStats' = IF IsOk(resp) THEN resp.data ELSE dashboardStats
  /\ statsLoading' = FALSE /\ dash_loading' = FALSE
  /\ event' = Ev(req.op, resp) /\ effects' = <<>>
  /\ UNCHANGED <<navVars, screen, token, mounted, submits, recentTransactions,
                 invVars, payVars, usrVars, fltVars>>

\* fetchDashboardStats after its await
FetchDashboardStatsResponse(req, resp) ==
  /\ screen = "overview" /\ mounted
  /\ req \in BagToSet(net) /\ req.op = "GET /reports/overview"
  /\ Answerable(resp)
  /\ net' = Recv(net, req)
  /\ dashboardStats' = IF IsOk(resp) THEN resp.data ELSE dashboardStats
  /\ statsLoading' = FALSE
  /\ event' = Ev(req.op, resp) /\ effects' = <<>>
  /\ UNCHANGED <<navVars, screen, token, mounted, submits, recentTransactions, dash_loading,
                 invVars, payVars, usrVars, fltVars>>

\* fetchRecentTransactions after its await
FetchRecentTransactionsResponse(req, resp) ==
  /\ screen = "overview" /\ mounted
  /\ req \in BagToSet(net) /\ req.op = "GET /payments" /\ req.target = "recent"
  /\ Answerable(resp)
  /\ net' = Recv(net, req)
  /\ recentTransactions' = IF IsOk(resp) THEN resp.data ELSE recentTransactions
  /\ dash_loading' = FALSE
  /\ event' = Ev(req.op, resp) /\ effects' = <<>>
  /\ UNCHANGED <<navVars, screen, token, mounted, submits, dashboardStats, statsLoading,
                 invVars, payVars, usrVars, fltVars>>

\* ---------------------------------------- the screens' views: specification
\* The overview and the list screens with their fetches, search boxes and
\* filter selects; the modals stay closed.
Tabs == Screens \cup {"overview"}
InitViews ==
  /\ screen \in Tabs
  /\ InitNav
  /\ mounted = FALSE
  /\ token \in Tokens
  /\ net = EmptyBag
  /\ submits = 0
  /\ event = UiEv
  /\ effects = <<>>
  /\ InitInvoices
  /\ InitPayments
  /\ InitUsers
  /\ InitFilters
  /\ InitDashboard
NextViews ==
  \/ MountInvoices
  \/ \E req \in BagToSet(net), resp \in Responses(InvoiceViewData) :
       FetchInvoicesResponse(req, resp)
  \/ \E value \in TypedSearches : setInvoiceSearchTerm(value)
  \/ \E value \in InvoiceStatusOptions : setInvoiceStatusFilter(value)
  \/ MountPayments
  \/ \E req \in BagToSet(net), resp \in Responses(PaymentViewData) :
       FetchPaymentsResponse(req, resp)
  \/ \E value \in TypedSearches : setPaymentSearchTerm(value)
  \/ \E value \in PaymentStatusOptions : setPaymentStatusFilter(value)
  \/ \E value \in MethodOptions : setMethodFilter(value)
  \/ MountUsers
  \/ \E value \in SearchTerms : setSearchTerm(value)
  \/ \E req \in BagToSet(net), resp \in Responses({<<U1>>, <<U1, U2>>}) :
       FetchUsersResponse(req, resp)
  \/ \E value \in RoleOptions : setRoleFilter(value)
  \/ MountDashboard
  \/ \E req \in BagToSet(net), resp \in Responses(StatsData) :
       FetchDashboardStatsResponse(req, resp)
  \/ \E req \in BagToSet(net), resp \in Responses(PaymentViewData) :
       FetchRecentTransactionsResponse(req, resp)
SpecViews == InitViews /\ [][NextViews]_vars

\* ------------------------------------------- the dashboard's tabs: specification
\* User.role
Roles == {"admin", "user", "manager"}
\* The sidebar's buttons
SidebarTabs == {"overview", "invoices", "users", "payments", "analytics", "settings"}

setActiveTab(tab) ==
  /\ screen = "overview"
  /\ activeTab' = tab
  /\ event' = UiEv /\ effects' = <<>>
  /\ UNCHANGED <<role, screen, token, mounted, net, submits, invVars, payVars,
                 usrVars, fltVars, dashVars>>
\* A sidebar button; User Management is rendered for an admin only
sidebarClick(tab) ==
  /\ tab = "users" => role = "admin"
  /\ setActiveTab(tab)
\* The buttons of Quick Actions on the overview tab
quickAction(tab) == activeTab = "overview" /\ setActiveTab(tab)
\* "View all" of Recent Transactions on the overview tab
viewAll == activeTab = "overview" /\ setActiveTab("payments")
\* "Back to Overview" of the tabs under development
backToOverview ==
  /\ activeTab \in {"settings", "analytics"}
  /\ setActiveTab("overview")

\* The dashboard of a signed-in user of any role, from its mount
InitTabs ==
  /\ screen = "overview"
  /\ activeTab = "overview"
  /\ role \in Roles
  /\ mounted = FALSE
  /\ token \in Tokens
  /\ net = EmptyBag
  /\ submits = 0
  /\ event = UiEv
  /\ effects = <<>>
  /\ InitInvoices
  /\ InitPayments
  /\ InitUsers
  /\ InitFilters
  /\ InitDashboard
NextTabs ==
  \/ MountDashboard
  \/ \E req \in BagToSet(net), resp \in Responses(StatsData) :
       FetchDashboardStatsResponse(req, resp)
  \/ \E req \in BagToSet(net), resp \in Responses(PaymentViewData) :
       FetchRecentTransactionsResponse(req, resp)
  \/ \E tab \in SidebarTabs : sidebarClick(tab)
  \/ \E tab \in {"invoices", "payments", "users"} : quickAction(tab)
  \/ viewAll
  \/ backToOverview
SpecTabs == InitTabs /\ [][NextTabs]_vars

\* ===================================================================== claims
ListOps == {"GET /invoices", "GET /payments", "GET /users"}
SaveOps == {"POST /invoices", "PATCH /invoices", "POST /payments",
            "PATCH /payments", "POST /users", "PATCH /users"}
MutationOps == SaveOps \cup {"DELETE /invoices", "DELETE /payments", "DELETE /users"}
ResetOp == "POST /users/reset-password"
\* The step just taken was the continuation of a request that succeeded / failed
Succeeded(e) == e.op # "ui" /\ e.status >= 200 /\ e.status <= 299
Failed(e) == e.op # "ui" /\ ~(e.status >= 200 /\ e.status <= 299)
\* The response carried a message field
HasMessage(e) == e.body \notin {NULL, NotJson, NoMessage}
ListsInFlight(B) ==
  InFlight(B, "GET /invoices") + InFlight(B, "GET /payments") + InFlight(B, "GET /users")
\* The state in which the screen shows the error of a request of endpoint op
SurfacedError(op) ==
  CASE op \in {"POST /invoices", "PATCH /invoices"} -> modal_error
    [] op \in {"GET /invoices", "DELETE /invoices"} -> inv_error
    [] op = "GET /payments" -> pay_error
    [] op \in {"POST /payments", "PATCH /payments", "DELETE /payments"} -> submitError
    [] op = "GET /users" -> usr_error
    [] op = "POST /users" -> addUserError
    [] op = "PATCH /users" -> updateUserError
    [] op = "DELETE /users" -> deleteError
    [] op = ResetOp -> mailError
    [] OTHER -> NULL
LastError == SurfacedError(event.op)
modalFlags == <<showModal, showConfirmModal, pay_showCreateModal, showUpdateModal,
                pay_showDeleteModal, usr_showCreateModal, showEditModal,
                usr_showDeleteModal>>
formState == <<form, editingInvoice, confirmAction, newPayment, editingPayment,
               selectedPayment, newUser, editUser, editingUser, userToDelete>>

\* C1: in no reachable state are two requests of the same mutation action
\* (create, update or delete of invoices, payments or users) in flight at once.
C1_NoDuplicateSubmit == \A op \in MutationOps : InFlight(net, op) <= 1

\* C2: when the credential store holds no token, no operation issues a network
\* request.
C2_NoTokenNoRequest == token = NULL => net = EmptyBag

\* C3: the step that handles a failed mutation leaves every modal as it was
\* (the triggering modal stays open), sets the error message of that mutation,
\* issues no list fetch and leaves the form state as it was.
C3_FailureKeepsModal ==
  [][Failed(event') /\ event'.op \in MutationOps =>
       /\ modalFlags' = modalFlags
       /\ LastError' # NULL
       /\ ListsInFlight(net') = ListsInFlight(net)
       /\ formState' = formState]_vars

C5_CreateRefetchesOnce ==
  [][Succeeded(event') /\ event'.op = "POST /invoices" =>
       /\ showModal' = FALSE
       /\ editingInvoice' = NullRecord
       /\ form' = InvoiceFormOf(NullRecord) /\ modal_error' = NULL
       /\ InFlight(net', "GET /invoices") = InFlight(net, "GET /invoices") + 1]_vars
C5_Witness ==
  /\ Succeeded(event) /\ event.op = "POST /invoices"
  /\ ~showModal /\ InFlight(net, "GET /invoices") = 1

\* C6: on the users screen, once every list fetch has completed without
\* error, the stored users are the answer to the latest search term.
C6_LatestTermWins ==
  (screen = "users" /\ mounted /\ InFlight(net, "GET /users") = 0
     /\ usr_error = NULL /\ ~isLoading)
    => users = UsersFor(searchTerm)

\* C7: the step that handles a failed list fetch leaves the stored collection
\* as it was.
C7_FailureKeepsCollection ==
  [][Failed(event') /\ event'.op \in ListOps /\ event'.status # 304 =>
       <<invoices, payments, users>>' = <<invoices, payments, users>>]_vars

\* C8: the step that handles a 304 answer to the payments or users list fetch
\* leaves the stored collection as it was and the error message empty.
C8_NotModifiedIsNoError ==
  [][event'.op \in {"GET /payments", "GET /users"} /\ event'.status = 304 =>
       /\ <<payments, users>>' = <<payments, users>>
       /\ LastError' = NULL]_vars

\* C9: after a list fetch is answered 401 with the message "token expired",
\* the screen's error message is exactly "token expired".
C9_ListErrorIsServerMessage ==
  (event.op \in ListOps /\ event.status = 401 /\ event.body = "token expired")
    => LastError = "token expired"

\* C10: after a failed mutation whose response body carries a message, the
\* error shown is that message.
C10_MutationErrorIsServerMessage ==
  (Failed(event) /\ event.op \in MutationOps \cup {ResetOp} /\ HasMessage(event))
    => LastError = event.body

\* C11: on the overview, the step that completes the stats fetch clears
\* statsLoading and leaves the recent transactions and their loading flag as
\* they were, and the step that completes the recent-transactions fetch clears
\* its loading flag and leaves the stats and statsLoading as they were,
\* whether the fetch succeeded or failed and in whichever order they complete.
C11_FetchesIndependent ==
  [][screen = "overview" /\ mounted =>
       /\ event'.op = "GET /reports/overview" =>
            /\ statsLoading' = FALSE
            /\ UNCHANGED <<recentTransactions, dash_loading>>
       /\ event'.op = "GET /payments" =>
            /\ dash_loading' = FALSE
            /\ UNCHANGED <<dashboardStats, statsLoading>>]_vars
C11_Witness ==
  /\ screen = "overview" /\ event.op = "GET /reports/overview" /\ Failed(event)
  /\ net = EmptyBag /\ dashboardStats = NullRecord /\ recentTransactions # <<>>
  /\ ~statsLoading /\ ~dash_loading

C13_InertFiltersAreIdentity ==
  /\ inv_searchTerm = "" /\ inv_statusFilter = "all" => filteredInvoices = invoices
  /\ pay_searchTerm = "" /\ pay_statusFilter = "all" /\ methodFilter = "all"
       => filteredPayments = payments
  /\ searchTerm = "" /\ roleFilter = "all" => filteredUsers = users
C13_Witness ==
  /\ screen = "payments" /\ Len(payments) = 3
  /\ pay_searchTerm = "" /\ pay_statusFilter = "all" /\ methodFilter = "all"
  /\ filteredPayments = payments

\* view holds exactly the elements of coll at the indices idx, in their order
IsSelection(view, coll, idx) ==
  /\ Len(view) = Cardinality(idx)
  /\ \E f \in [DOMAIN view -> idx] :
       /\ \A j, k \in DOMAIN view : j < k => f[j] < f[k]
       /\ \A j \in DOMAIN view : view[j] = coll[f[j]]
\* Some of the texts contains the term, whatever the case of the letters
ContainsTerm(texts, term) ==
  \E text \in texts : includes(lowerText(text), lowerText(Chars(term)))
InvoiceMatches(invoice) ==
  /\ ContainsTerm({nameFromEmail(invoice.client_email), Chars(invoice.id),
                   Chars(invoice.client_email)}, inv_searchTerm)
  /\ inv_statusFilter # "all" => toLowerCase(invoice.status) = inv_statusFilter
PaymentMatches(payment) ==
  /\ ContainsTerm({Chars(payment.clientName), Chars(payment.transactionId),
                   Chars(payment.invoiceNumber)}, pay_searchTerm)
  /\ pay_statusFilter # "all" => payment.status = pay_statusFilter
  /\ methodFilter # "all" => replaceSpace(payment.paymentMethod) = methodFilter
UserMatchesRole(user) == roleFilter # "all" => user.role = roleFilter
UserMatches(user) ==
  /\ ContainsTerm({Chars(user.name), Chars(user.email)}, searchTerm)
  /\ UserMatchesRole(user)

\* C14: on every screen the filtered view holds, in their stored order,
\* exactly the stored records whose text fields contain the search term,
\* whatever the case, and whose status, method or role equals every filter
\* that is not "all".
C14_ViewIsSelection ==
  /\ IsSelection(filteredInvoices, invoices,
                 {i \in DOMAIN invoices : InvoiceMatches(invoices[i])})
  /\ IsSelection(filteredPayments, payments,
                 {i \in DOMAIN payments : PaymentMatches(payments[i])})
  /\ IsSelection(filteredUsers, users,
                 {i \in DOMAIN users : UserMatches(users[i])})

\* C14 as amended: that holds on the invoice and payment screens; on the users
\* screen the search term is applied by the server, and the filtered view
\* holds, in their stored order, exactly the stored users whose role equals
\* the role filter when it is not "all".
C14_Amended ==
  /\ IsSelection(filteredInvoices, invoices,
                 {i \in DOMAIN invoices : InvoiceMatches(invoices[i])})
  /\ IsSelection(filteredPayments, payments,
                 {i \in DOMAIN payments : PaymentMatches(payments[i])})
  /\ IsSelection(filteredUsers, users,
                 {i \in DOMAIN users : UserMatchesRole(users[i])})
C14_Witness ==
  /\ screen = "payments" /\ Len(payments) = 3
  /\ pay_searchTerm = "-2" /\ methodFilter = "cash" /\ Len(filteredPayments) = 1

\* C15: no payment with a NaN amount is ever stored in the payments
\* collection, and the total of the filtered payments is never NaN.
C15_NoNaNStored ==
  /\ \A i \in DOMAIN payments : ~isNaN(payments[i].amount)
  /\ ~isNaN(pay_totalAmount)

\* The sum of the n largest of the values V
RECURSIVE LargestSum(_, _)
LargestSum(V, n) ==
  IF n = 0 \/ V = {} THEN 0
  ELSE LET max == CHOOSE v \in V : \A w \in V : w <= v
       IN max + LargestSum(V \ {max}, n - 1)
Outstandings == {dashboardStats.topDebtors[i].outstanding :
                   i \in DOMAIN dashboardStats.topDebtors}
\* totalOutstanding minus the sum of the top-N debtor values
Residual == dashboardStats.totalOutstanding - LargestSum(Outstandings, topN)
OthersAt == {i \in DOMAIN outstandingData : outstandingData[i].name = "Others"}
\* The series has the entry "Others" exactly when the residual is positive;
\* it is then the last entry, its value is the residual and the values of the
\* series sum to totalOutstanding.
OthersIsResidual ==
  /\ OthersAt # {} <=> Residual > 0
  /\ OthersAt # {} =>
       /\ OthersAt = {Len(outstandingData)}
       /\ outstandingData[Len(outstandingData)].value = Residual
       /\ reduceSum([i \in DOMAIN outstandingData |-> outstandingData[i].value], 0)
            = dashboardStats.totalOutstanding

\* C16: whatever stats are stored, the outstanding series has an "Others"
\* entry exactly when totalOutstanding minus the sum of the top-N debtor
\* values is strictly positive, its value is that difference, and with it the
\* series sums to totalOutstanding.
C16_OthersIffResidual == dashboardStats # NullRecord => OthersIsResidual

\* C16 as amended: that holds whenever topDebtors is not empty, with N = 4;
\* when topDebtors is empty the series is empty whatever totalOutstanding is.
C16_Amended ==
  dashboardStats # NullRecord =>
    IF dashboardStats.topDebtors = <<>> THEN outstandingData = <<>>
    ELSE OthersIsResidual
C16_Witness ==
  /\ dashboardStats # NullRecord /\ Len(dashboardStats.topDebtors) = 5
  /\ dashboardStats.totalOutstanding = 320
  /\ Len(outstandingData) = 5 /\ outstandingData[5] = [name |-> "Others", value |-> 40]

\* The n largest of the values V, largest first
RECURSIVE Largest(_, _)
Largest(V, n) ==
  IF n = 0 \/ V = {} THEN <<>>
  ELSE LET max == CHOOSE v \in V : \A w \in V : w <= v
       IN <<max>> \o Largest(V \ {max}, n - 1)
chartTop == SelectSeq(outstandingData, LAMBDA e : e.name # "Others")

\* C17: whatever order the server supplies topDebtors in, the outstanding
\* chart's top entries are the 4 largest outstanding values, largest first,
\* and the Top Debtors card shows the 3 largest, largest first.
C17_TopViewsSorted ==
  dashboardStats # NullRecord =>
    /\ [i \in DOMAIN chartTop |-> chartTop[i].value] = Largest(Outstandings, topN)
    /\ [i \in DOMAIN topDebtorsCard |-> topDebtorsCard[i].outstanding]
         = Largest(Outstandings, 3)

\* a === b on numbers: NaN equals nothing
NumEq(a, b) == a # NaN /\ b # NaN /\ a = b
PaymentStatuses == {"completed", "pending", "failed", "refunded"}
RECURSIVE SumOverStatuses(_)
SumOverStatuses(S) ==
  IF S = {} THEN 0
  ELSE LET st == CHOOSE x \in S : TRUE
       IN Plus(amountOfStatus(st), SumOverStatuses(S \ {st}))
InvoicePartsSumToTotal ==
  NumEq(Plus(Plus(paidAmount, overdueAmount), inv_pendingAmount), inv_totalAmount)
PaymentPartsSumToTotal == NumEq(SumOverStatuses(PaymentStatuses), pay_totalAmount)

\* C18: the amounts of the filtered payments summed per status, over the four
\* payment statuses, add up to their total amount, and the paid, overdue and
\* pending amounts shown on the invoice screen add up to the total amount of
\* the filtered invoices.
C18_PartsSumToTotal == PaymentPartsSumToTotal /\ InvoicePartsSumToTotal

\* C19: when the filtered collection of a screen is empty, every aggregate
\* derived from it is 0; when the overview has no debtors its outstanding
\* series is empty, and when it has no transactions its method series is
\* empty.
C19_EmptyGivesZero ==
  /\ filteredInvoices = <<>> =>
       /\ inv_totalAmount = 0 /\ paidAmount = 0
       /\ overdueAmount = 0 /\ inv_pendingAmount = 0
  /\ filteredPayments = <<>> =>
       pay_totalAmount = 0 /\ completedAmount = 0 /\ pay_pendingAmount = 0
  /\ filteredUsers = <<>> => totalUsers = 0
  /\ (dashboardStats = NullRecord \/ dashboardStats.topDebtors = <<>>) =>
       outstandingData = <<>>
  /\ recentTransactions = <<>> => methodData = <<>>
C19_Witness ==
  /\ screen = "invoices" /\ Len(invoices) = 3 /\ inv_statusFilter = "paid"
  /\ inv_searchTerm = "-2" /\ filteredInvoices = <<>> /\ paidAmount = 0

\* C20: on the invoice, payment and users screen, the step that changes the
\* search term sends a new list request.
C20_SearchChangeFetches ==
  [][/\ inv_searchTerm' # inv_searchTerm =>
          InFlight(net', "GET /invoices") = InFlight(net, "GET /invoices") + 1
     /\ pay_searchTerm' # pay_searchTerm =>
          InFlight(net', "GET /payments") = InFlight(net, "GET /payments") + 1
     /\ searchTerm' # searchTerm =>
          InFlight(net', "GET /users") = InFlight(net, "GET /users") + 1]_vars

\* The in-progress flag that the handler sending a request of endpoint op
\* sets; the invoice deletion has none
SubmittingFlag(op) ==
  CASE op \in {"POST /invoices", "PATCH /invoices"} -> modal_loading
    [] op \in {"POST /payments", "PATCH /payments", "DELETE /payments"} -> isSubmitting
    [] op = "POST /users" -> isAddingUser
    [] op = "PATCH /users" -> isUpdatingUser
    [] op = "DELETE /users" -> isDeleting
    [] OTHER -> FALSE

\* C21: a submit attempt made after an earlier mutation was sent, with no
\* request of its endpoint still in flight, starts clean: in the step that sends its request, the error message of that
\* mutation is cleared and its submitting flag is set.
C21_SubmitStartsClean ==
  [][\A op \in MutationOps :
       (/\ submits >= 1 /\ InFlight(net, op) = 0
        /\ InFlight(net', op) > 0) =>
          /\ SurfacedError(op)' = NULL
          /\ SubmittingFlag(op)']_vars

\* The invoice screen alone: the dashboard with the invoices tab active
InitOnInvoices == Init /\ screen = "invoices"
SpecInvoices == InitOnInvoices /\ [][NextInvoices]_vars

\* The invoice of the fetched data with identifier id
FetchedInvoice(id) ==
  CHOOSE inv \in UNION {Range(d) : d \in InvoiceData} : inv.id = id
EditRequests == {r \in BagToSet(net) : r.op = "PATCH /invoices"}

\* C22: the status carried by every edit request in flight is the status of
\* the invoice as it was fetched, whatever was typed into the modal.
C22_StatusIsFetched ==
  \A r \in EditRequests : r.body.status = FetchedInvoice(r.target).status
C22_Witness ==
  \E r \in EditRequests :
    /\ r.target = "INV-2" /\ r.body.status = "overdue"
    /\ r.body.clientEmail # Inv2.client_email

\* C23: the step that handles a 304 answer to the invoice list fetch leaves
\* the stored invoices, the error message and the toast as they were, and
\* sets the loading flag to false.
C23_InvoiceNotModified ==
  [][event'.op = "GET /invoices" /\ event'.status = 304 =>
       /\ invoices' = invoices
       /\ inv_error' = inv_error
       /\ <<toastMessage, toastType>>' = <<toastMessage, toastType>>
       /\ inv_loading' = FALSE]_vars
C23_Witness ==
  /\ event.op = "GET /invoices" /\ event.status = 304
  /\ Len(invoices) > 0 /\ inv_error = NULL /\ ~inv_loading
  /\ toastType # "error"

\* The requests of a screen: the endpoints under its path
ScreenOps(path) ==
  {"GET " \o path, "POST " \o path, "PATCH " \o path, "DELETE " \o path}
ScreenInFlight(path) ==
  SumCounts(net, {r \in BagToSet(net) : r.op \in ScreenOps(path)})

\* C24: no reachable state has a submitting flag set while no request of its
\* screen is in flight.
C24_FlagHasRequest ==
  /\ modal_loading => ScreenInFlight("/invoices") > 0
  /\ isSubmitting => ScreenInFlight("/payments") > 0
  /\ (isAddingUser \/ isUpdatingUser \/ isDeleting) => ScreenInFlight("/users") > 0

\* C26: on each list screen the loading flag is true whenever a list fetch of
\* that screen is in flight.
C26_LoadingWhileFetching ==
  /\ InFlight(net, "GET /invoices") > 0 => inv_loading
  /\ InFlight(net, "GET /payments") > 0 => pay_loading
  /\ InFlight(net, "GET /users") > 0 => isLoading

\* matchesMethod of filteredPayments for one payment under one filter value
MethodSelects(payment, option) ==
  \/ option = "all"
  \/ replaceSpace(payment.paymentMethod) = replaceSpace(option)

\* C27: every stored payment whose method is one the create form can submit
\* is selected by some value of the method filter other than "all".
C27_MethodHasFilter ==
  \A i \in DOMAIN payments :
    (\E m \in FormMethods :
        payments[i].paymentMethod = replaceUnderscore(toLowerCase(m))) =>
      \E option \in MethodOptions \ {"all"} : MethodSelects(payments[i], option)

\* The message the validation of handleSaveInvoice gives for the form and
\* the stored token of this state, NULL when they pass
ValidationMessage ==
  IF trim(form.clientEmail) = "" THEN "Client email is required."
  ELSE IF trim(form.amount) = "" \/ isNaN(parseFloat(form.amount))
       THEN "A valid amount is required."
  ELSE IF trim(form.dueDate) = "" THEN "Due date is required."
  ELSE IF token = NULL THEN "Authentication token not found."
  ELSE NULL

\* C28: a click on Save with a blank client email, a blank or non-numeric
\* amount, a blank due date or no stored token sends nothing: the modal stays
\* open showing the message of the first failing check, the modal's loading
\* flag is false, and the list, its loading flag and the toast are as before.
\* No save request is sent from a state whose form or token fails a check.
C28_InvalidSaveSendsNothing ==
  [][/\ (handleSaveInvoice /\ ValidationMessage # NULL) =>
          /\ net' = net /\ showModal'
          /\ modal_error' = ValidationMessage
          /\ ~modal_loading'
          /\ effects' = <<>>
          /\ <<invoices, inv_loading, inv_error, toastMessage, toastType>>'
               = <<invoices, inv_loading, inv_error, toastMessage, toastType>>
     /\ \A op \in {"POST /invoices", "PATCH /invoices"} :
          InFlight(net', op) > InFlight(net, op) => ValidationMessage = NULL]_vars
C28_Witness ==
  /\ showModal /\ ~modal_loading
  /\ form.amount = "abc" /\ trim(form.clientEmail) # ""
  /\ modal_error = "A valid amount is required."
  /\ InFlight(net, "PATCH /invoices") = 0

\* C29: after a successful payment create, the create form's state equals
\* the state it has when the screen is mounted.
C29_ResetIsInitial ==
  (Succeeded(event) /\ event.op = "POST /payments") => newPayment = InitialNewPayment

\* C30: the issue date carried by every edit request in flight is the issue
\* date of the invoice as it was fetched.
C30_EditKeepsIssueDate ==
  \A r \in EditRequests : r.body.date = FetchedInvoice(r.target).date

\* C25: for a signed-in user whose role is not admin, the active tab is
\* never 'users'.
C25_UsersTabOnlyForAdmin == activeTab = "users" => role = "admin"

====
